---- MODULE Spec2Model ----
(***************************************************************************)
(* State-machine model of the adds_ai terminal client (src/adds_ai/app.py, *)
(* llm_openai.py, retrieval.py): the UI screen model, the byte-at-a-time    *)
(* main loop with its escape-sequence decoder, the command dispatcher and   *)
(* the cancellable streaming controller do_stream.                          *)
(*                                                                          *)
(* Text is modelled as a sequence of character codes (Python's ord), so     *)
(* that upper(), strip(), split(), slicing and textwrap are computed as the *)
(* code computes them.  The modelled alphabet holds no tab, no line break   *)
(* inside typed input and no hyphen inside a word, so textwrap's tab        *)
(* expansion and hyphen break points are not exercised.                     *)
(*                                                                          *)
(* The environment of Spec: the user presses keys (KeyPress) whose bytes    *)
(* reach the device at once, or one at a time (Deliver) for the keys a      *)
(* decoder wait can see arrive; whole lines are typed on an empty prompt at *)
(* the top of the loop; while a response streams the user presses ESC, a   *)
(* character or the up arrow.  The upstream service sends deltas,           *)
(* annotations and a usage event, or fails.  The lines typed in Spec are a  *)
(* chat message, /clear, /new, /help, /quit and an unknown command.         *)
(*                                                                          *)
(* SpecCmd runs the dispatcher with every command (/preset, /model, /ctx,   *)
(* /tutorial, /search and the shortcuts /1 .. /4 as well): the user types   *)
(* whole lines only and responses stream to their end.  SpecHistory applies *)
(* the ledger's two operations on their own.                                *)
(*                                                                          *)
(* Of a frame the model keeps that it was written, the scroll clamp it      *)
(* performs, the transcript rows it shows and the parts of its status row;  *)
(* of a request it keeps the payload, not the tools list.                   *)
(***************************************************************************)
EXTENDS Integers, Sequences, FiniteSets, TLC

\* ------------------------------------------------------------------ bounds
\* Keys the user presses in the chat during one run.
MaxKeys == 3
\* Upstream events (deltas, annotations) one response may hold before it ends.
MaxEvents == 2
\* Ticks that may pass between two readings of the clock.
MaxDt == 1
\* Characters of the name typed on the splash screen.
MaxName == 1
\* Entries appended to the ledger since its last clear, in SpecHistory.
MaxAppends == 22
\* Leading ledger entries whose content varies, in SpecHistory.
MaxVaried == 3
\* Lines the user types in the chat during one run, in SpecCmd.
MaxCmds == 3

\* -------------------------------------------------------- program constants
\* UI.max_history
max_history == 20
\* add_shortcut_grid: min(self.cols, 78)
GridMaxWidth == 78
\* add_shortcut_grid: gap
GridGap == 4
\* add_shortcut_grid: max(18, ...)
GridMinCell == 18
\* retrieval.MAX_MATCHES
MAX_MATCHES == 3
\* retrieval.MAX_CHARS
MAX_CHARS == 800
\* UI.render: matches[:4]
HintLimit == 4

\* ------------------------------------------------------------ string table
Txt ==
  [
    \* SYS is the text SYS: 
    SYS |-> <<83,89,83,58,32>>,
    \* AI is the text AI: 
    AI |-> <<65,73,58,32>>,
    \* SRC is the text SRC: 
    SRC |-> <<83,82,67,58,32>>,
    \* COLON_SP is the text : 
    COLON_SP |-> <<58,32>>,
    \* YOU is the text YOU
    YOU |-> <<89,79,85>>,
    \* Operator is the text Operator
    Operator |-> <<79,112,101,114,97,116,111,114>>,
    \* LinkedAs is the text Linked as 
    LinkedAs |-> <<76,105,110,107,101,100,32,97,115,32>>,
    \* TypeHelp is the text . Type /help for commands.
    TypeHelp |-> <<46,32,84,121,112,101,32,47,104,101,108,112,32,102,111,114,32,99,111,109,109,97,110,100,115,46>>,
    \* Interrupted is the text  [interrupted]
    Interrupted |-> <<32,91,105,110,116,101,114,114,117,112,116,101,100,93>>,
    \* Cleared is the text Cleared.
    Cleared |-> <<67,108,101,97,114,101,100,46>>,
    \* NewConv is the text New conversation started.
    NewConv |-> <<78,101,119,32,99,111,110,118,101,114,115,97,116,105,111,110,32,115,116,97,114,116,101,100,46>>,
    \* Help is the text Commands: /help /new /clear /quit /preset [name] /model [name] /ctx /tutorial /search [query] | ESC to stop
    Help |-> <<67,111,109,109,97,110,100,115,58,32,47,104,101,108,112,32,47,110,101,119,32,47,99,108,101,97,114,32,47,113,117,105,116,32,47,112,114,101,115,101,116,32,91,110,97,109,101,93,32,47,109,111,100,101,108,32,91,110,97,109,101,93,32,47,99,116,120,32,47,116,117,116,111,114,105,97,108,32,47,115,101,97,114,99,104,32,91,113,117,101,114,121,93,32,124,32,69,83,67,32,116,111,32,115,116,111,112>>,
    \* Unknown is the text Unknown: 
    Unknown |-> <<85,110,107,110,111,119,110,58,32>>,
    \* Grid11 is the text /1 Search web (/search <topic>)
    Grid11 |-> <<47,49,32,83,101,97,114,99,104,32,119,101,98,32,40,47,115,101,97,114,99,104,32,60,116,111,112,105,99,62,41>>,
    \* Grid12 is the text /2 Toggle context (/ctx)
    Grid12 |-> <<47,50,32,84,111,103,103,108,101,32,99,111,110,116,101,120,116,32,40,47,99,116,120,41>>,
    \* Grid21 is the text Get current info with citations
    Grid21 |-> <<71,101,116,32,99,117,114,114,101,110,116,32,105,110,102,111,32,119,105,116,104,32,99,105,116,97,116,105,111,110,115>>,
    \* Grid22 is the text Turn retrieval context on/off
    Grid22 |-> <<84,117,114,110,32,114,101,116,114,105,101,118,97,108,32,99,111,110,116,101,120,116,32,111,110,47,111,102,102>>,
    \* Grid31 is the text /3 Tutorial (/tutorial)
    Grid31 |-> <<47,51,32,84,117,116,111,114,105,97,108,32,40,47,116,117,116,111,114,105,97,108,41>>,
    \* Grid32 is the text /4 Models (/model <id>)
    Grid32 |-> <<47,52,32,77,111,100,101,108,115,32,40,47,109,111,100,101,108,32,60,105,100,62,41>>,
    \* Grid41 is the text How to use AMBER AI
    Grid41 |-> <<72,111,119,32,116,111,32,117,115,101,32,65,77,66,69,82,32,65,73>>,
    \* Grid42 is the text List or set available models
    Grid42 |-> <<76,105,115,116,32,111,114,32,115,101,116,32,97,118,97,105,108,97,98,108,101,32,109,111,100,101,108,115>>,
    \* q is the text /q
    q |-> <<47,113>>,
    \* quit is the text /quit
    quit |-> <<47,113,117,105,116>>,
    \* clear is the text /clear
    clear |-> <<47,99,108,101,97,114>>,
    \* help is the text /help
    help |-> <<47,104,101,108,112>>,
    \* new is the text /new
    new |-> <<47,110,101,119>>,
    \* preset is the text /preset
    preset |-> <<47,112,114,101,115,101,116>>,
    \* model is the text /model
    model |-> <<47,109,111,100,101,108>>,
    \* ctx is the text /ctx
    ctx |-> <<47,99,116,120>>,
    \* tutorial is the text /tutorial
    tutorial |-> <<47,116,117,116,111,114,105,97,108>>,
    \* search is the text /search
    search |-> <<47,115,101,97,114,99,104>>,
    \* sc1 is the text /1
    sc1 |-> <<47,49>>,
    \* sc2 is the text /2
    sc2 |-> <<47,50>>,
    \* sc3 is the text /3
    sc3 |-> <<47,51>>,
    \* sc4 is the text /4
    sc4 |-> <<47,52>>,
    \* CitSep is the text  | 
    CitSep |-> <<32,124,32>>,
    \* Shortcut1 is the text Shortcut: /search <topic>. Type your query after /search.
    Shortcut1 |-> <<83,104,111,114,116,99,117,116,58,32,47,115,101,97,114,99,104,32,60,116,111,112,105,99,62,46,32,84,121,112,101,32,121,111,117,114,32,113,117,101,114,121,32,97,102,116,101,114,32,47,115,101,97,114,99,104,46>>,
    \* SearchSp is the text /search 
    SearchSp |-> <<47,115,101,97,114,99,104,32>>,
    \* ModelSp is the text /model 
    ModelSp |-> <<47,109,111,100,101,108,32>>,
    \* CtxState is the text Retrieval context 
    CtxState |-> <<82,101,116,114,105,101,118,97,108,32,99,111,110,116,101,120,116,32>>,
    \* on is the text on
    on |-> <<111,110>>,
    \* off is the text off
    off |-> <<111,102,102>>,
    \* ModelsHead is the text Models: 
    ModelsHead |-> <<77,111,100,101,108,115,58,32>>,
    \* ModelsTail is the text . Set with /model <id>.
    ModelsTail |-> <<46,32,83,101,116,32,119,105,116,104,32,47,109,111,100,101,108,32,60,105,100,62,46>>,
    \* PresetsHead is the text Presets: 
    PresetsHead |-> <<80,114,101,115,101,116,115,58,32>>,
    \* modelsColon is the text models: 
    modelsColon |-> <<109,111,100,101,108,115,58,32>>,
    \* none is the text (none)
    none |-> <<40,110,111,110,101,41>>,
    \* PresetSet is the text Preset set to 
    PresetSet |-> <<80,114,101,115,101,116,32,115,101,116,32,116,111,32>>,
    \* UnknownPreset is the text Unknown preset: 
    UnknownPreset |-> <<85,110,107,110,111,119,110,32,112,114,101,115,101,116,58,32>>,
    \* CurrentModel is the text Current model: 
    CurrentModel |-> <<67,117,114,114,101,110,116,32,109,111,100,101,108,58,32>>,
    \* Available is the text  | Available: 
    Available |-> <<32,124,32,65,118,97,105,108,97,98,108,101,58,32>>,
    \* ModelSet is the text Model set to 
    ModelSet |-> <<77,111,100,101,108,32,115,101,116,32,116,111,32>>,
    \* Usage is the text Usage: /search <query>
    Usage |-> <<85,115,97,103,101,58,32,47,115,101,97,114,99,104,32,60,113,117,101,114,121,62>>,
    \* SearchTag is the text [search] 
    SearchTag |-> <<91,115,101,97,114,99,104,93,32>>,
    \* CommaSp is the text , 
    CommaSp |-> <<44,32>>,
    \* TwoSp is the text   
    TwoSp |-> <<32,32>>,
    \* NoteHead is the text Operator name: 
    NoteHead |-> <<79,112,101,114,97,116,111,114,32,110,97,109,101,58,32>>,
    \* NoteTail is the text . When asked who the user is, answer with this name.
    NoteTail |-> <<46,32,87,104,101,110,32,97,115,107,101,100,32,119,104,111,32,116,104,101,32,117,115,101,114,32,105,115,44,32,97,110,115,119,101,114,32,119,105,116,104,32,116,104,105,115,32,110,97,109,101,46>>,
    \* UseWeb is the text Use web search to answer this request and cite sources.
    UseWeb |-> <<85,115,101,32,119,101,98,32,115,101,97,114,99,104,32,116,111,32,97,110,115,119,101,114,32,116,104,105,115,32,114,101,113,117,101,115,116,32,97,110,100,32,99,105,116,101,32,115,111,117,114,99,101,115,46>>,
    \* Retrieved is the text [Retrieved context]
    Retrieved |-> <<91,82,101,116,114,105,101,118,101,100,32,99,111,110,116,101,120,116,93>>,
    \* Dash is the text - 
    Dash |-> <<45,32>>,
    \* Tutorial is the text Give me a complete tutorial of ADDS AI.
    Tutorial |-> <<71,105,118,101,32,109,101,32,97,32,99,111,109,112,108,101,116,101,32,116,117,116,111,114,105,97,108,32,111,102,32,65,68,68,83,32,65,73,46>>,
    \* Explain is the text Explain this system.
    Explain |-> <<69,120,112,108,97,105,110,32,116,104,105,115,32,115,121,115,116,101,109,46>>
  ]

\* ------------------------------------------------------- text primitives
Min(a, b) == IF a < b THEN a ELSE b
Max(a, b) == IF a > b THEN a ELSE b

\* s[:n] for n >= 0
Take(s, n) == SubSeq(s, 1, Min(n, Len(s)))
\* s[n:] for n >= 0
Drop(s, n) == SubSeq(s, n + 1, Len(s))
\* s[:-1]
DropLast(s) == SubSeq(s, 1, Len(s) - 1)
\* ch * n
Repeat(ch, n) == [i \in 1..n |-> ch]
\* s.ljust(w)
Ljust(s, w) == s \o Repeat(32, w - Len(s))

RECURSIVE Join(_)
\* "".join(parts)
Join(parts) == IF parts = <<>> THEN <<>> ELSE Head(parts) \o Join(Tail(parts))

RECURSIVE JoinWith(_, _)
\* sep.join(parts)
JoinWith(sep, parts) ==
  IF parts = <<>> THEN <<>>
  ELSE IF Len(parts) = 1 THEN parts[1]
  ELSE parts[1] \o sep \o JoinWith(sep, Tail(parts))

\* str.isspace for one character: the ASCII characters str.strip and str.split
\* treat as whitespace
SpaceChars == {9, 10, 11, 12, 13, 28, 29, 30, 31, 32}
IsSpace(c) == c \in SpaceChars

\* The least and the greatest element of a non-empty set of integers
SetMin(S) == CHOOSE i \in S : \A j \in S : i <= j
SetMax(S) == CHOOSE i \in S : \A j \in S : i >= j

\* str.strip()
Strip(s) ==
  LET keep == {i \in DOMAIN s : ~IsSpace(s[i])}
  IN  IF keep = {} THEN <<>> ELSE SubSeq(s, SetMin(keep), SetMax(keep))

\* str.upper() on ASCII
Upper(s) == [i \in DOMAIN s |-> IF s[i] >= 97 /\ s[i] <= 122 THEN s[i] - 32 ELSE s[i]]

\* str.lower() on ASCII
Lower(s) == [i \in DOMAIN s |-> IF s[i] >= 65 /\ s[i] <= 90 THEN s[i] + 32 ELSE s[i]]

\* s.startswith(p)
StartsWith(s, p) == Len(p) <= Len(s) /\ SubSeq(s, 1, Len(p)) = p

\* needle in hay (substring test)
Contains(hay, needle) ==
  \E i \in 0..(Len(hay) - Len(needle)) : SubSeq(hay, i + 1, i + Len(needle)) = needle

\* The maximal runs of s that lie wholly inside or wholly outside the character
\* set ws, in order.
Runs(s, ws) ==
  LET starts   == {i \in DOMAIN s : i = 1 \/ ((s[i] \in ws) # (s[i - 1] \in ws))}
      n        == Cardinality(starts)
      start(k) == CHOOSE i \in starts : Cardinality({j \in starts : j < i}) = k - 1
  IN  [k \in 1..n |-> SubSeq(s, start(k), IF k = n THEN Len(s) ELSE start(k + 1) - 1)]

\* str.split(): the whitespace-delimited tokens of s
Split(s) == SelectSeq(Runs(s, SpaceChars), LAMBDA r : ~IsSpace(r[1]))

\* The characters str.splitlines breaks on (ASCII); \r\n counts as one break.
IsLineBreak(c) == c \in {10, 11, 12, 13, 28, 29, 30}

\* str.splitlines(): ends holds the last index of every line terminator
Splitlines(s) ==
  LET ends     == {i \in DOMAIN s : IsLineBreak(s[i])
                                     /\ ~(s[i] = 13 /\ i < Len(s) /\ s[i + 1] = 10)}
      n        == Cardinality(ends)
      end(k)   == IF k = 0 THEN 0
                  ELSE CHOOSE i \in ends : Cardinality({j \in ends : j < i}) = k - 1
      first(i) == IF s[i] = 10 /\ i > 1 /\ s[i - 1] = 13 THEN i - 1 ELSE i
      rest     == SubSeq(s, end(n) + 1, Len(s))
  IN  [k \in 1..n |-> SubSeq(s, end(k - 1) + 1, first(end(k)) - 1)]
      \o (IF rest = <<>> THEN <<>> ELSE <<rest>>)

\* --------------------------------------------------------------- textwrap
\* textwrap's whitespace class
WrapSpaceChars == {9, 10, 11, 12, 13, 32}

\* TextWrapper._split for text without hyphens: whitespace runs and words
WrapChunks(para) == Runs(para, WrapSpaceChars)

RECURSIVE FillLine(_, _, _)
\* The inner loop of TextWrapper._wrap_chunks: move chunks to the current line
\* while they fit; returns <<current line, remaining chunks>>.
FillLine(chunks, cur, width) ==
  IF chunks # <<>> /\ Len(cur) + Len(Head(chunks)) <= width
  THEN FillLine(Tail(chunks), cur \o Head(chunks), width)
  ELSE <<cur, chunks>>

\* TextWrapper._handle_long_word with break_long_words: the part of the chunk
\* that fits goes to the current line, the rest stays first in the chunks.
HandleLongWord(chunks, cur, width) ==
  LET space_left == IF width < 1 THEN 1 ELSE width - Len(cur)
      chunk      == Head(chunks)
  IN  <<cur \o Take(chunk, space_left),
        <<Drop(chunk, Min(space_left, Len(chunk)))>> \o Tail(chunks)>>

RECURSIVE WrapLines(_, _)
\* TextWrapper._wrap_chunks with drop_whitespace=False
WrapLines(chunks, width) ==
  IF chunks = <<>> THEN <<>>
  ELSE LET filled == FillLine(chunks, <<>>, width)
           broken == IF filled[2] # <<>> /\ Len(Head(filled[2])) > width
                     THEN HandleLongWord(filled[2], filled[1], width)
                     ELSE filled
       IN  (IF broken[1] # <<>> THEN <<broken[1]>> ELSE <<>>)
           \o WrapLines(broken[2], width)

RECURSIVE WrapParas(_, _)
WrapParas(paras, width) ==
  IF paras = <<>> THEN <<>>
  ELSE LET para == Head(paras)
           got  == IF para = <<>> THEN <<>> ELSE WrapLines(WrapChunks(para), width)
       IN  (IF got = <<>> THEN << <<>> >> ELSE got) \o WrapParas(Tail(paras), width)

\* wrap(text, width)
wrap(text, width) ==
  LET paras == Splitlines(text)
  IN  WrapParas(IF paras = <<>> THEN << <<>> >> ELSE paras, width)

\* ------------------------------------------------------------ screen model
\* UI.add_block: the lines appended for one block
BlockLines(prefix, text, w) ==
  LET wrapped == wrap(prefix \o text, w)
  IN  [i \in DOMAIN wrapped |-> Take(wrapped[i], w)] \o << <<>> >>

\* Seeded fault for C8: the block is put in front of the transcript
add_block_Prepend(ls, prefix, text, w) == BlockLines(prefix, text, w) \o ls

\* UI.add_block
add_block(ls, prefix, text, w) == ls \o BlockLines(prefix, text, w)

\* UI.user_prefix
user_prefix(label) == label \o Txt.COLON_SP

\* Seeded fault for C14: only user entries reach the ledger
add_to_history_UserOnly(h, role, content) ==
  IF role = "user" THEN Append(h, [role |-> role, content |-> content]) ELSE h

\* Seeded fault for C2: the newest entries are dropped instead of the oldest
trim_history_KeepOldest(h) == IF Len(h) > max_history THEN SubSeq(h, 1, max_history) ELSE h

\* UI.add_to_history's loop: pop(0) while the ledger is over the cap
RECURSIVE trim_history(_)
trim_history(h) == IF Len(h) > max_history THEN trim_history(Tail(h)) ELSE h

\* UI.add_to_history
add_to_history(h, role, content) ==
  trim_history(Append(h, [role |-> role, content |-> content]))

\* Seeded fault for C18: the ledger survives
clear_history_Keep(h) == h

\* UI.clear_history
clear_history(h) == <<>>

\* UI.viewport_height
viewport_height(r, plain) == IF plain THEN Max(1, r - 1) ELSE Max(1, r - 3)

\* The height UI.render / UI.render_plain pass to _view_slice:
\* bottom - top + 1 with bottom = rows - 2 and top = 2 (decorated) or 0 (plain)
render_height(r, plain) == IF plain THEN (r - 2) - 0 + 1 ELSE (r - 2) - 2 + 1

\* UI._clamp_scroll
clamp_scroll(ls, off, height) ==
  LET max_offset == Max(Len(ls) - height, 0)
  IN  IF off > max_offset THEN max_offset ELSE off

\* Python's s[a:b] for a >= 0 and any integer b (a negative b counts from the end)
PySlice(s, a, b) ==
  LET e == IF b < 0 THEN Max(Len(s) + b, 0) ELSE Min(b, Len(s))
  IN  SubSeq(s, a + 1, e)

\* Seeded fault for C22: the window starts at the top of the transcript
view_slice_FromTop(ls, off, height) == PySlice(ls, 0, height)

\* UI._view_slice (the lines it returns; the clamp is clamp_scroll)
view_slice(ls, off, height) ==
  LET o     == clamp_scroll(ls, off, height)
      start == Max(Len(ls) - height - o, 0)
  IN  PySlice(ls, start, start + height)

\* UI.add_shortcut_grid(center=True)
add_shortcut_grid(ls, w, r, plain) ==
  LET width   == Min(w, GridMaxWidth)
      cell_w  == Max(GridMinCell, (width - GridGap - 4) \div 2)
      top     == <<43>> \o Repeat(45, cell_w) \o <<43>>
      gapsp   == Repeat(32, GridGap)
      box_row(left, right) ==
        <<124>> \o Ljust(Take(left, cell_w), cell_w) \o <<124>> \o gapsp
        \o <<124>> \o Ljust(Take(right, cell_w), cell_w) \o <<124>>
      row_gap == Repeat(32, Len(top) * 2 + GridGap)
      border  == top \o gapsp \o top
      grid_lines ==
        << border, box_row(Txt.Grid11, Txt.Grid12), box_row(Txt.Grid21, Txt.Grid22), border,
           row_gap,
           border, box_row(Txt.Grid31, Txt.Grid32), box_row(Txt.Grid41, Txt.Grid42), border,
           <<>> >>
      height    == viewport_height(r, plain)
      remaining == height - Len(ls) - Len(grid_lines)
      pad       == Max(0, remaining \div 2)
  IN  ls \o Repeat(<<>>, pad) \o grid_lines

\* Seeded fault for C17: a blank name is committed as it is
chat_name_NoDefault(typed) == Strip(typed)

\* The name UI.start_chat commits: the typed name, or the default
chat_name(typed) == IF Strip(typed) = <<>> THEN Txt.Operator ELSE Strip(typed)

\* The transcript UI.start_chat leaves: welcome block, then the shortcut grid
start_chat_lines(typed, w, r, plain) ==
  add_shortcut_grid(
    add_block(<<>>, Txt.SYS, Txt.LinkedAs \o Upper(chat_name(typed)) \o Txt.TypeHelp, w),
    w, r, plain)

\* UI.splash_input_limit
splash_input_limit(w) == Max(8, Min(w - 20, 40))

\* UI.commands
commands ==
  << Txt.help, Txt.new, Txt.clear, Txt.quit, Txt.preset, Txt.model, Txt.ctx,
     Txt.tutorial, Txt.search >>

\* Python's str.lstrip()
Lstrip(s) ==
  LET keep == { i \in DOMAIN s : ~IsSpace(s[i]) }
  IN  IF keep = {} THEN <<>> ELSE SubSeq(s, SetMin(keep), Len(s))

\* Seeded fault for C20: a buffer that is a command name is hinted as well
cmd_hint_ExactToo(buf) ==
  LET matches == SelectSeq(commands, LAMBDA c : StartsWith(c, buf))
  IN  IF buf # <<>> /\ Head(buf) = 47 /\ matches # <<>>
      THEN JoinWith(Txt.TwoSp, Take(matches, HintLimit)) ELSE <<>>

\* UI.render: cmd_hint for the input buffer buf
cmd_hint(buf) ==
  LET matches == SelectSeq(commands, LAMBDA c : StartsWith(c, buf))
  IN  IF buf # <<>> /\ Head(buf) = 47 /\ matches # <<>>
         /\ \A i \in DOMAIN commands : commands[i] # buf
      THEN JoinWith(Txt.TwoSp, Take(matches, HintLimit)) ELSE <<>>

\* The command hint in the frame UI.render writes: render_splash and
\* render_plain show none
frame_hint(m, plain, buf) == IF m = "splash" \/ plain THEN <<>> ELSE cmd_hint(buf)

\* Seeded fault for C24: the model hint opens on /mo already
model_hint_FromMo(buf, models) ==
  LET trimmed  == Lstrip(buf)
      partial  == Lower(Strip(Drop(trimmed, Len(Txt.model))))
      filtered == IF partial # <<>>
                  THEN SelectSeq(models, LAMBDA m : Contains(Lower(m), partial))
                  ELSE models
  IN  IF StartsWith(Lower(trimmed), Take(Txt.model, 3))
      THEN Txt.modelsColon \o (IF filtered # <<>> THEN JoinWith(Txt.TwoSp, filtered)
                                                  ELSE Txt.none)
      ELSE <<>>

\* UI.render: model_hint, the available models that hold the text typed after
\* /model (all of them when nothing is typed); empty for any other buffer
model_hint(buf, models) ==
  LET trimmed  == Lstrip(buf)
      partial  == Lower(Strip(Drop(trimmed, Len(Txt.model))))
      filtered == IF partial # <<>>
                  THEN SelectSeq(models, LAMBDA m : Contains(Lower(m), partial))
                  ELSE models
  IN  IF StartsWith(Lower(trimmed), Txt.model)
      THEN Txt.modelsColon \o (IF filtered # <<>> THEN JoinWith(Txt.TwoSp, filtered)
                                                  ELSE Txt.none)
      ELSE <<>>

\* UI.render: the parts the status row st is composed of.  The command hint
\* comes first, joined by the model hint when there is one; else the model
\* hint alone; else the default status (status text, context note, totals),
\* of which the model keeps the kind only.  render_splash and render_plain
\* compose no such row.
frame_st(m, plain, buf, models) ==
  LET ch == cmd_hint(buf)
      mh == model_hint(buf, models)
  IN  IF m = "splash" \/ plain THEN <<>>
      ELSE IF ch # <<>>
      THEN <<[kind |-> "cmd_hint", text |-> ch]>>
             \o (IF mh # <<>> THEN <<[kind |-> "model_hint", text |-> mh]>> ELSE <<>>)
      ELSE IF mh # <<>> THEN <<[kind |-> "model_hint", text |-> mh]>>
      ELSE <<[kind |-> "status", text |-> <<>>]>>

\* retrieval.find_matches over the knowledge base kb (a sequence of
\* [key, blurb]); the modelled base holds one entry, so the sort is the identity
find_matches(kb, text) ==
  IF kb = <<>> \/ text = <<>> THEN <<>>
  ELSE Take(SelectSeq(kb, LAMBDA e : Contains(Lower(text), Lower(e.key))), MAX_MATCHES)

RECURSIVE ContextLines(_, _)
\* The loop of retrieval.format_context: one line per match until the running
\* total of entry lengths passes MAX_CHARS
ContextLines(matches, total) ==
  IF matches = <<>> THEN <<>>
  ELSE LET entry == Txt.Dash \o Head(matches).key \o Txt.COLON_SP \o Head(matches).blurb
       IN  IF total + Len(entry) > MAX_CHARS THEN <<>>
           ELSE <<entry>> \o ContextLines(Tail(matches), total + Len(entry))

\* retrieval.format_context
format_context(matches) ==
  IF matches = <<>> THEN <<>>
  ELSE JoinWith(<<10>>, <<Txt.Retrieved>> \o ContextLines(matches, 0))

\* The text UI.start_chat stores in personalization_note
note_text(name) == Txt.NoteHead \o name \o Txt.NoteTail

\* Seeded fault for C12: the note goes into every request
system_block_AlwaysNote(system_prompt, ptext, sent, note, web_search, retrieval_context) ==
  Strip(JoinWith(<<10, 10>>,
    SelectSeq(<<system_prompt, ptext, note,
                IF web_search THEN Txt.UseWeb ELSE <<>>, retrieval_context>>,
              LAMBDA part : part # <<>>)))

\* do_stream: the system block, its non-empty parts joined by a blank line
system_block(system_prompt, ptext, sent, note, web_search, retrieval_context) ==
  Strip(JoinWith(<<10, 10>>,
    SelectSeq(<<system_prompt, ptext,
                IF ~sent /\ note # <<>> THEN note ELSE <<>>,
                IF web_search THEN Txt.UseWeb ELSE <<>>, retrieval_context>>,
              LAMBDA part : part # <<>>)))

\* Seeded fault for C15: the request is built from the ledger after the new
\* user message was added to it
build_payload_AfterLedger(block, h, user_msg) ==
  << [role |-> "system", content |-> block] >>
  \o add_to_history(h, "user", user_msg)
  \o << [role |-> "user", content |-> user_msg] >>

\* do_stream: the request payload
build_payload(block, h, user_msg) ==
  << [role |-> "system", content |-> block] >>
  \o h
  \o << [role |-> "user", content |-> user_msg] >>

\* ------------------------------------------------------------- environment
\* The knowledge base load_kb returns (data/kb.yaml): one entry, Widget
KB == << [key |-> <<87,105,100,103,101,116>>, blurb |-> <<65,32,115,109,97,108,108,32,112,97,114,116,46>>] >>

\* The text load_system_prompt returns (data/system_prompt.txt): Be brief.
SystemPrompt == <<66,101,32,98,114,105,101,102,46>>
\* The presets load_presets returns (data/presets.yaml): default and terse
PresetDefault == <<100,101,102,97,117,108,116>>
PresetTerse == <<116,101,114,115,101>>
\* the key main looks up for /tutorial and /3
PresetTutorial == <<116,117,116,111,114,105,97,108>>
\* the preset names in the order of the file
PresetOrder == << PresetDefault, PresetTerse >>
Presets == (PresetDefault :> <<65,110,115,119,101,114,32,112,108,97,105,110,108,121,46>>) @@ (PresetTerse :> <<85,115,101,32,102,101,119,32,119,111,114,100,115,46>>)
\* prompts.select_preset with no --preset and no ADDS_PRESET
select_preset(presets) ==
  IF DOMAIN presets = {} THEN <<>>
  ELSE IF PresetDefault \in DOMAIN presets THEN PresetDefault
  ELSE CHOOSE name \in DOMAIN presets : TRUE
\* config.load_config: OPENAI_MODEL defaults to gpt-4o-mini
DefaultModel == <<103,112,116,45,52,111,45,109,105,110,105>>
\* UI.available_models: gpt-5.2-2025-12-11, gpt-5-nano-2025-08-07, gpt-4o
AvailableModels == << <<103,112,116,45,53,46,50,45,50,48,50,53,45,49,50,45,49,49>>, <<103,112,116,45,53,45,110,97,110,111,45,50,48,50,53,45,48,56,45,48,55>>, <<103,112,116,45,52,111>> >>

\* Startup parameters (parse_args): the geometries and refresh intervals explored.
\* RefreshLong is an interval no stream of the model outlasts.
RefreshLong == MaxEvents * MaxDt
Configs ==
  { [cols |-> 80, rows |-> 24, no_ansi |-> FALSE, refresh_ms |-> 0],
    [cols |-> 40, rows |-> 6,  no_ansi |-> TRUE,  refresh_ms |-> RefreshLong],
    [cols |-> 20, rows |-> 3,  no_ansi |-> FALSE, refresh_ms |-> 1] }

\* Keys the user presses, each the bytes the terminal sends for it
KeyEnter  == <<13>>
KeyUp     == <<27, 91, 65>>
KeyDown   == <<27, 91, 66>>
KeyUpSS3  == <<27, 79, 65>>
KeyEsc    == <<27>>
\* Alt-x: ESC followed by a printable byte
KeyAltX   == <<27, 120>>
\* a leaked fragment of an escape sequence
KeyFrag   == <<91, 65>>
\* a typed [ with a digit right behind it, as in a pasted [1]
KeyBracketDigit == <<91, 49>>
KeyChar   == <<120>>
KeyBack   == <<127>>
KeyCtrlU  == <<21>>
KeyBell   == <<7>>
KeyHigh   == <<200>>
\* typed lines: hi, /clear, /new, /help, /quit, /zz
LineChat  == <<104, 105, 13>>
LineClear == Txt.clear \o <<13>>
LineNew   == Txt.new \o <<10>>
LineHelp  == Txt.help \o <<13>>
LineQuit  == Txt.quit \o <<13>>
LineZz    == <<47, 122, 122, 13>>
\* more typed lines: /preset, /preset terse, /preset zz, /model, /model m 2,
\* /ctx, /tutorial, /search, /search Widget, /1, /2, /3, /4, /mo
LinePreset      == Txt.preset \o <<13>>
LinePresetTerse == Txt.preset \o <<32>> \o PresetTerse \o <<13>>
LinePresetZz    == Txt.preset \o <<32, 122, 122, 13>>
LineModel       == Txt.model \o <<13>>
LineModelM2     == Txt.model \o <<32, 109, 32, 32, 50, 13>>
LineCtx         == Txt.ctx \o <<13>>
LineTutorial    == Txt.tutorial \o <<13>>
LineSearch      == Txt.search \o <<13>>
LineSearchQ     == Txt.search \o <<32>> \o KB[1].key \o <<13>>
Line1           == Txt.sc1 \o <<13>>
Line2           == Txt.sc2 \o <<13>>
Line3           == Txt.sc3 \o <<13>>
Line4           == Txt.sc4 \o <<13>>
\* Lines typed on an empty prompt in SpecCmd
CmdLines ==
  { LineChat, LineClear, LineNew, LineHelp, LineQuit, LineZz, LinePreset, LinePresetTerse,
    LinePresetZz, LineModel, LineModelM2, LineCtx, LineTutorial, LineSearch, LineSearchQ,
    Line1, Line2, Line3, Line4 }
\* What the user types behind a prefilled prompt: an argument, or Enter alone
ArgLines == { <<120, 13>>, <<13>> }
\* The typed lines that are numeric shortcuts
ShortcutLines == { Line1, Line2, Line3, Line4 }
Keys ==
  { KeyEnter, KeyUp, KeyDown, KeyUpSS3, KeyEsc, KeyAltX, KeyFrag, KeyBracketDigit,
    KeyChar, KeyBack, KeyCtrlU, KeyBell, KeyHigh, LineChat, LineClear, LineNew, LineHelp, LineQuit, LineZz }
\* Keys of several bytes that a decoder wait can see arrive: their bytes reach
\* the device one at a time; every other key is readable at once.
SequenceKeys == { KeyUp, KeyDown, KeyUpSS3, KeyAltX, KeyFrag, KeyBracketDigit }
\* Keys the user presses while a response streams: the cancel key, a
\* character, and an arrow key, whose first byte is the cancel key's
StreamKeys == { KeyEsc, KeyChar, KeyUp }
\* Keys the user presses on the splash screen
SplashKeys == { KeyEnter, KeyChar, KeyBack, KeyCtrlU, LineQuit }
\* Whole lines, typed on an empty prompt
TypedLines == { LineChat, LineClear, LineNew, LineHelp, LineQuit, LineZz }

\* The text the upstream service sends, cut into the deltas it arrives in:
\* " He", "llo " (a response longer than that repeats them)
Chunks == << <<32,72,101>>, <<108,108,111,32>> >>
Delta(k) == Chunks[((k - 1) % Len(Chunks)) + 1]
\* url_citation annotations: [url, title]
Annotations == { [url |-> <<117>>, title |-> <<116>>] }
\* usage.total_tokens of a response.completed event
UsageTotals == { 5 }

\* ------------------------------------------------------------------- state
VARIABLES
  \* startup parameters (UI.__init__)
  cols, rows, no_ansi, refresh_ms,
  \* UI fields
  mode, lines, splash_input, input_buf, status, show_ctx, last_matches,
  session_tokens, interrupted, history, scroll_offset, personalization_sent,
  user_label, user_name, empty_state,
  \* UI.model, UI.preset, main's preset_text, UI.available_models,
  \* UI.personalization_note
  model, preset, preset_text, available_models, personalization_note,
  \* OpenAIClient.session_tokens
  llm_session_tokens,
  \* where the process is: poll (top of main's loop), esc / csi / frag (the
  \* decoder's bounded waits), create / stream (inside do_stream, waiting for
  \* the transport), exit (main returned), crashed (an exception left main)
  pc,
  \* do_stream locals: out, ai_block_start; render_age is time.time() - last_render
  \* at the last reading of the clock
  out, ai_block_start, render_age,
  \* do_stream local: the payload handed to OpenAIClient.stream
  payload,
  \* OpenAIClient.stream locals: citations collected; upstream events so far
  citations, nevents,
  \* the channel: bytes readable on the fd, bytes of the pressed key still on
  \* their way, keys pressed so far
  tty, wire, keys,
  \* frames written to the device since the program last waited on it (select),
  \* and the command hint in the status row of the latest frame
  frames, status_hint,
  \* the transcript rows of the latest frame (render's view), and the parts its
  \* status row shows (render's st)
  view, st,
  \* history variables the properties read: redraws of the assistant block by the
  \* stream in progress; whether a stream was ever interrupted; the entries handed to
  \* add_to_history since the last clear_history; the value of
  \* time.time() - last_render at the latest comparison; the observer of the pressed key
  ai_writes, ever_interrupted, appended, since_render, watch

sessionVars == <<cols, rows, no_ansi, refresh_ms>>
uiVars == <<mode, lines, splash_input, input_buf, status, show_ctx, last_matches,
            session_tokens, interrupted, history, scroll_offset,
            personalization_sent, user_label, user_name, empty_state>>
selVars == <<model, preset, preset_text, available_models, personalization_note>>
streamVars == <<out, ai_block_start, render_age, citations,
                nevents, llm_session_tokens, payload>>
envVars == <<tty, wire, keys>>
streamGhost == <<ai_writes, ever_interrupted, appended, since_render>>
ghostVars == <<streamGhost, watch>>
frameVars == <<frames, status_hint, view, st>>
vars == <<sessionVars, uiVars, selVars, streamVars, envVars, frameVars, ghostVars, pc>>

\* The observer: the key it follows (none: the empty key), and what the main
\* loop made of its bytes: ArrowUp events, characters appended, waits expired
WatchOff == [key |-> <<>>, ups |-> 0, chars |-> 0, timeouts |-> 0]
\* Keys the observer follows when they are pressed at the chat prompt
WatchedKeys == { KeyUp, KeyAltX, KeyFrag, KeyBracketDigit }

\* UI.__init__ and main up to the loop
Init ==
  /\ \E c \in Configs :
       /\ cols = c.cols /\ rows = c.rows /\ no_ansi = c.no_ansi
       /\ refresh_ms = c.refresh_ms
  /\ mode = "splash" /\ lines = <<>> /\ splash_input = <<>> /\ input_buf = <<>>
  /\ status = <<"Idle">> /\ show_ctx = TRUE /\ last_matches = <<>>
  /\ session_tokens = 0 /\ interrupted = FALSE /\ history = <<>>
  /\ scroll_offset = 0 /\ personalization_sent = FALSE
  /\ user_label = Txt.YOU /\ user_name = Txt.YOU /\ empty_state = FALSE
  /\ llm_session_tokens = 0
  /\ pc = "poll"
  /\ out = <<>> /\ ai_block_start = 0
  /\ render_age = 0 /\ citations = <<>> /\ nevents = 0
  /\ model = DefaultModel /\ available_models = AvailableModels
  /\ preset = select_preset(Presets)
  /\ preset_text = IF preset = <<>> THEN <<>> ELSE Presets[preset]
  /\ personalization_note = <<>>
  /\ payload = <<>>
  /\ tty = <<>> /\ wire = <<>> /\ keys = 0
  /\ frames = 1 /\ status_hint = <<>> /\ view = <<>> /\ st = <<>>
  /\ ai_writes = 0 /\ ever_interrupted = FALSE /\ appended = <<>>
  /\ since_render = 0 /\ watch = WatchOff

\* ------------------------------------------------------------- the channel
\* The user presses a key: its bytes start towards the device.  A key is
\* pressed once the bytes of the previous one have been read.  On the splash
\* screen the user types a name of at most MaxName characters; in the chat
\* at most MaxKeys keys are pressed.
KeyPress(k) ==
  /\ wire = <<>> /\ tty = <<>>
  /\ \/ /\ pc = "poll" /\ mode = "splash" /\ k \in SplashKeys
        /\ k = KeyChar => Len(splash_input) < MaxName
        /\ k \in TypedLines => splash_input = <<>>
        /\ keys' = keys
     \/ /\ pc = "poll" /\ mode = "chat" /\ keys < MaxKeys
        /\ k \in TypedLines => input_buf = <<>>
        /\ keys' = keys + 1
     \/ /\ pc \in {"create", "stream"} /\ k \in StreamKeys /\ keys < MaxKeys
        /\ keys' = keys + 1
  /\ IF k \in SequenceKeys THEN wire' = k /\ tty' = tty
                            ELSE wire' = wire /\ tty' = k
  /\ watch' = IF k \in WatchedKeys /\ pc = "poll" /\ mode = "chat"
              THEN [WatchOff EXCEPT !.key = k] ELSE WatchOff
  /\ UNCHANGED <<frameVars, sessionVars, selVars, uiVars, streamVars, pc, streamGhost>>

\* The next byte of the pressed key becomes readable on the fd.
Deliver ==
  /\ wire # <<>>
  /\ tty' = Append(tty, Head(wire)) /\ wire' = Tail(wire)
  /\ UNCHANGED <<frameVars, sessionVars, selVars, uiVars, streamVars, keys, ghostVars, pc>>

\* --------------------------------------------------------------- rendering
\* What write_bytes(fd, ui.render()) does to the screen model: render and
\* render_plain clamp scroll_offset through _view_slice; render_splash does not.
flush(m, ls, off) ==
  IF m = "splash" THEN off ELSE clamp_scroll(ls, off, render_height(rows, no_ansi))

\* What a frame drawn in mode m from the transcript ls and the buffer buf shows
\* besides the command hint: the rows _view_slice returns once scroll_offset
\* is clamped, and the status row
DrawRest(m, ls, buf) ==
  /\ view' = IF m = "splash" THEN <<>>
             ELSE view_slice(ls, scroll_offset', render_height(rows, no_ansi))
  /\ st' = frame_st(m, no_ansi, buf, available_models')

\* The observer counts what the main loop made of the followed key.
Observe(dups, dchars, dtimeouts) ==
  watch' = IF watch.key # <<>>
           THEN [watch EXCEPT !.ups = @ + dups, !.chars = @ + dchars,
                              !.timeouts = @ + dtimeouts]
           ELSE watch

\* main: select reports the fd readable and read_bytes returns one byte
ReadAtPoll == pc = "poll" /\ tty # <<>> /\ tty' = Tail(tty)

\* ------------------------------------------------------------- do_stream
\* do_stream from its first line to the point where the for loop first asks
\* the generator for an event (client.responses.create is then in flight);
\* ls is the transcript at the call.
BeginStream(ls, ptext, user_msg, web_search) ==
  /\ status' = <<"Thinking...">>
  /\ lines' = ls
  /\ scroll_offset' = flush("chat", ls, scroll_offset)
  /\ last_matches' = [i \in DOMAIN find_matches(KB, user_msg) |->
                        find_matches(KB, user_msg)[i].key]
  /\ payload' =
       build_payload(
         system_block(SystemPrompt, ptext, personalization_sent, personalization_note,
                      web_search,
                      IF show_ctx THEN format_context(find_matches(KB, user_msg)) ELSE <<>>),
         history, user_msg)
  /\ history' = add_to_history(history, "user", user_msg)
  /\ appended' = Append(appended, [role |-> "user", content |-> user_msg])
  /\ since_render' = 0
  /\ out' = <<>> /\ ai_block_start' = Len(ls) 
  /\ render_age' = 0 /\ citations' = <<>> /\ nevents' = 0
  /\ interrupted' = FALSE
  /\ ai_writes' = 0
  /\ pc' = "create"
  /\ frames' = 1 /\ status_hint' = frame_hint("chat", no_ansi, <<>>)
  /\ DrawRest("chat", ls, <<>>)

\* do_stream after its for loop: final render, ledger, citations, totals, status;
\* has_result says final_result was set, result_citations are its citations
FinishStream(outF, interruptedF, has_result, result_citations) ==
  LET response_text == Strip(Join(outF))
      shown  == add_block(Take(lines, ai_block_start), Txt.AI, response_text, cols)
      cited  == IF has_result /\ result_citations # <<>>
                THEN add_block(shown, Txt.SRC,
                               JoinWith(Txt.CitSep, Take(result_citations, 3)), cols)
                ELSE shown
  IN  /\ lines' = cited
      /\ history' = add_to_history(history, "assistant", response_text)
      /\ appended' = Append(appended, [role |-> "assistant", content |-> response_text])
      /\ since_render' = 0
      /\ session_tokens' = IF has_result THEN llm_session_tokens ELSE session_tokens
      /\ personalization_sent' =
           IF ~personalization_sent /\ personalization_note # <<>>
           THEN TRUE ELSE personalization_sent
      /\ payload' = <<>>
      /\ interrupted' = interruptedF
      /\ status' = IF interruptedF THEN <<"Idle", "stopped", "<elapsed>ms">>
                   ELSE <<"Idle", "<elapsed>ms">>
      /\ scroll_offset' = flush("chat", cited, scroll_offset)
      /\ ai_writes' = 0
      /\ ever_interrupted' = (ever_interrupted \/ interruptedF)
      /\ out' = <<>> /\ ai_block_start' = 0 
      /\ render_age' = 0 /\ citations' = <<>> /\ nevents' = 0
      /\ frames' = 1 /\ status_hint' = frame_hint("chat", no_ansi, input_buf)
      /\ DrawRest("chat", cited, input_buf)
      /\ pc' = "poll"

\* client.responses.create returns the event stream
CreateOk ==
  /\ pc = "create"
  /\ pc' = "stream"
  /\ UNCHANGED <<frameVars, sessionVars, selVars, uiVars, streamVars, envVars, ghostVars>>

\* client.responses.create raises: nothing in do_stream or main catches it
CreateFail ==
  /\ pc = "create"
  /\ pc' = "crashed"
  /\ UNCHANGED <<frameVars, sessionVars, selVars, uiVars, streamVars, envVars, ghostVars>>

\* The event stream raises while the generator waits for its next event
UpFail ==
  /\ pc = "stream"
  /\ pc' = "crashed"
  /\ UNCHANGED <<frameVars, sessionVars, selVars, uiVars, streamVars, envVars, ghostVars>>

\* response.output_text.annotation.added: the generator records a new citation
UpAnnotation(a) ==
  /\ pc = "stream" /\ nevents < MaxEvents
  /\ citations' =
       IF a.url # <<>> /\ \A i \in DOMAIN citations : citations[i].url # a.url
       THEN Append(citations, a) ELSE citations
  /\ nevents' = nevents + 1
  /\ UNCHANGED <<frameVars, sessionVars, selVars, uiVars, out, ai_block_start, render_age,
                 llm_session_tokens, payload, envVars, ghostVars, pc>>

\* response.completed, the last event of a response: the generator adds the
\* usage to the client's totals
UpCompleted(total) ==
  /\ pc = "stream" /\ nevents <= MaxEvents
  /\ llm_session_tokens' = llm_session_tokens + total
  /\ nevents' = MaxEvents + 1
  /\ UNCHANGED <<frameVars, sessionVars, selVars, uiVars, out, ai_block_start, render_age,
                 citations, payload, envVars, ghostVars, pc>>

\* Seeded fault for C13: the cancel check does not recognise the ESC byte
CancelByte_MissesEsc == IF tty = <<>> \/ Head(tty) = 27 THEN -1 ELSE Head(tty)

\* The byte do_stream's cancel check reads when the fd is readable (-1: none)
CancelByte == IF tty = <<>> THEN -1 ELSE Head(tty)
\* Seeded fault for C26: the cancel check looks at the byte and leaves it on
\* the device
CancelRead_Peek == tty' = tty
\* The read of the cancel check: one byte, when the fd is readable
CancelRead == tty' = IF tty = <<>> THEN tty ELSE Tail(tty)

\* Seeded fault for C6: the throttle compares with >= instead of >
RedrawDue_AtLeast(age) == age >= refresh_ms

\* do_stream's throttle: time.time() - last_render > ui.refresh_ms / 1000.0
RedrawDue(age) == age > refresh_ms

\* Seeded fault for C23: a redraw appends the block instead of replacing it
StreamDelta_Appends(dt) ==
  /\ pc = "stream" /\ nevents < MaxEvents
  /\ CancelByte # 27 /\ CancelRead
  /\ nevents' = nevents + 1
  /\ out' = Append(out, Delta(Len(out) + 1))
  /\ since_render' = render_age + dt
  /\ IF RedrawDue(render_age + dt)
     THEN /\ lines' = add_block(lines, Txt.AI, Join(out'), cols)
          /\ status' = <<"Streaming... (ESC to stop)">>
          /\ scroll_offset' = flush("chat", lines', scroll_offset)
          /\ render_age' = 0
          /\ ai_writes' = ai_writes + 1
          /\ frames' = 1 /\ status_hint' = frame_hint("chat", no_ansi, input_buf)
          /\ DrawRest("chat", lines', input_buf)
     ELSE /\ render_age' = render_age + dt
          /\ frames' = 0 /\ status_hint' = status_hint /\ UNCHANGED <<view, st>>
          /\ UNCHANGED <<lines, status, scroll_offset, ai_writes>>
  /\ UNCHANGED <<sessionVars, selVars, mode, splash_input, input_buf, show_ctx, last_matches,
                 session_tokens, interrupted, history, personalization_sent,
                 user_label, user_name, empty_state, ai_block_start,
                 citations, llm_session_tokens, payload, wire, keys, ever_interrupted,
                 appended,
                 watch, pc>>

\* response.output_text.delta: the generator yields the text and the loop body
\* runs with no ESC pending: accumulate, and redraw when the refresh interval
\* has passed since the last redraw; dt is the time since the clock was last read
StreamDelta(dt) ==
  /\ pc = "stream" /\ nevents < MaxEvents
  /\ CancelByte # 27 /\ CancelRead
  /\ nevents' = nevents + 1
  /\ out' = Append(out, Delta(Len(out) + 1))
  /\ since_render' = render_age + dt
  /\ IF RedrawDue(render_age + dt)
     THEN /\ lines' = add_block(Take(lines, ai_block_start), Txt.AI, Join(out'), cols)
          /\ status' = <<"Streaming... (ESC to stop)">>
          /\ scroll_offset' = flush("chat", lines', scroll_offset)
          /\ render_age' = 0
          /\ ai_writes' = ai_writes + 1
          /\ frames' = 1 /\ status_hint' = frame_hint("chat", no_ansi, input_buf)
          /\ DrawRest("chat", lines', input_buf)
     ELSE /\ render_age' = render_age + dt
          /\ frames' = 0 /\ status_hint' = status_hint /\ UNCHANGED <<view, st>>
          /\ UNCHANGED <<lines, status, scroll_offset, ai_writes>>
  /\ UNCHANGED <<sessionVars, selVars, mode, splash_input, input_buf, show_ctx, last_matches,
                 session_tokens, interrupted, history, personalization_sent,
                 user_label, user_name, empty_state, ai_block_start,
                 citations, llm_session_tokens, payload, wire, keys, ever_interrupted,
                 appended,
                 watch, pc>>

\* The upstream events end: the generator yields the StreamResult, the loop
\* body stores it with no ESC pending, the generator is exhausted and do_stream
\* finishes.
StreamEnd ==
  /\ pc = "stream"
  /\ CancelByte # 27 /\ CancelRead
  /\ FinishStream(out, FALSE, TRUE,
                  [i \in DOMAIN citations |->
                     citations[i].url \o <<32,45,32>> \o citations[i].title])
  /\ UNCHANGED <<sessionVars, selVars, mode, splash_input, input_buf, show_ctx, last_matches,
                 user_label, user_name, empty_state, llm_session_tokens, wire, keys, watch>>

\* Seeded fault for C3: the interrupted stream finishes without the marker
StreamInterrupt_NoMarker ==
  /\ pc = "stream"
  /\ CancelByte = 27 /\ CancelRead
  /\ FinishStream(out, TRUE, FALSE, <<>>)
  /\ UNCHANGED <<sessionVars, selVars, mode, splash_input, input_buf, show_ctx, last_matches,
                 user_label, user_name, empty_state, llm_session_tokens, wire, keys, watch>>

\* The generator yields (a delta or the StreamResult) while an ESC byte is
\* readable: the loop body reads it, marks the stream interrupted, appends the
\* marker and breaks; do_stream finishes without the yielded event.
StreamInterrupt ==
  /\ pc = "stream"
  /\ CancelByte = 27 /\ CancelRead
  /\ FinishStream(Append(out, Txt.Interrupted), TRUE, FALSE, <<>>)
  /\ UNCHANGED <<sessionVars, selVars, mode, splash_input, input_buf, show_ctx, last_matches,
                 user_label, user_name, empty_state, llm_session_tokens, wire, keys, watch>>

\* -------------------------------------------------------------- main loop
IsEnter(c) == c \in {10, 13}
\* The line the Enter branch dispatches in chat mode
SubmittedLine == Strip(input_buf)
\* Every command name main's dispatcher knows, with the /1../4 shortcuts
KnownCommands ==
  { Txt.q, Txt.quit, Txt.clear, Txt.help, Txt.new, Txt.preset, Txt.model, Txt.ctx,
    Txt.tutorial, Txt.search }
Shortcuts == { Txt.sc1, Txt.sc2, Txt.sc3, Txt.sc4 }
IsCommand(name) ==
  /\ mode = "chat" /\ SubmittedLine # <<>> /\ Head(SubmittedLine) = 47
  /\ SubmittedLine \notin Shortcuts
  /\ Split(SubmittedLine)[1] \in name

\* Enter in splash mode with /q or /quit typed: main returns
EnterSplashQuit ==
  /\ ReadAtPoll /\ IsEnter(Head(tty)) /\ mode = "splash"
  /\ Strip(splash_input) \in {Txt.q, Txt.quit}
  /\ pc' = "exit"
  /\ frames' = 0 /\ status_hint' = status_hint /\ UNCHANGED <<view, st>>
  /\ UNCHANGED <<sessionVars, selVars, uiVars, streamVars, wire, keys, ghostVars>>

\* Enter in splash mode: UI.start_chat, then a frame
EnterSplash ==
  /\ ReadAtPoll /\ IsEnter(Head(tty)) /\ mode = "splash"
  /\ Strip(splash_input) \notin {Txt.q, Txt.quit}
  /\ user_label' = Upper(chat_name(splash_input))
  /\ user_name' = chat_name(splash_input)
  /\ personalization_sent' = FALSE
  /\ mode' = "chat"
  /\ lines' = start_chat_lines(splash_input, cols, rows, no_ansi)
  /\ empty_state' = TRUE
  /\ splash_input' = <<>>
  /\ scroll_offset' = flush("chat", lines', scroll_offset)
  /\ personalization_note' = note_text(chat_name(splash_input))
  /\ frames' = 1 /\ status_hint' = frame_hint("chat", no_ansi, input_buf)
  /\ DrawRest("chat", lines', input_buf)
  /\ UNCHANGED <<sessionVars, model, preset, preset_text, available_models, input_buf,
                 status, show_ctx, last_matches, session_tokens,
                 interrupted, history, streamVars, wire, keys, ghostVars, pc>>

\* Enter in chat mode on a blank line: the buffer is emptied and a frame drawn
EnterEmpty ==
  /\ ReadAtPoll /\ IsEnter(Head(tty)) /\ mode = "chat" /\ SubmittedLine = <<>>
  /\ input_buf' = <<>>
  /\ scroll_offset' = flush(mode, lines, scroll_offset)
  /\ frames' = 1 /\ status_hint' = frame_hint(mode, no_ansi, <<>>)
  /\ DrawRest(mode, lines, <<>>)
  /\ UNCHANGED <<sessionVars, selVars, mode, lines, splash_input, status, show_ctx, last_matches,
                 session_tokens, interrupted, history, personalization_sent, user_label,
                 user_name, empty_state, streamVars, wire, keys, ghostVars, pc>>

\* /q, /quit: main returns (the buffer was emptied first)
CmdQuit ==
  /\ ReadAtPoll /\ IsEnter(Head(tty)) /\ IsCommand({Txt.q, Txt.quit})
  /\ input_buf' = <<>>
  /\ pc' = "exit"
  /\ frames' = 0 /\ status_hint' = status_hint /\ UNCHANGED <<view, st>>
  /\ UNCHANGED <<sessionVars, selVars, mode, lines, splash_input, status, show_ctx, last_matches,
                 session_tokens, interrupted, history, scroll_offset,
                 personalization_sent, user_label, user_name, empty_state, streamVars,
                 wire, keys, ghostVars>>

\* Seeded fault for C16: the command ends without a frame
CommandDone_NoFrame(ls) ==
  /\ input_buf' = <<>>
  /\ lines' = ls
  /\ status' = <<"Idle">>
  /\ scroll_offset' = scroll_offset
  /\ frames' = 0 /\ status_hint' = status_hint /\ UNCHANGED <<view, st>>

\* The tail every non-streaming command shares: status Idle, then a frame
CommandDone(ls) ==
  /\ input_buf' = <<>>
  /\ lines' = ls
  /\ status' = <<"Idle">>
  /\ scroll_offset' = flush(mode, ls, scroll_offset)
  /\ frames' = 1 /\ status_hint' = frame_hint(mode, no_ansi, <<>>)
  /\ DrawRest(mode, ls, <<>>)

\* /clear
CmdClear ==
  /\ ReadAtPoll /\ IsEnter(Head(tty)) /\ IsCommand({Txt.clear})
  /\ CommandDone(add_block(<<>>, Txt.SYS, Txt.Cleared, cols))
  /\ UNCHANGED <<sessionVars, selVars, mode, splash_input, show_ctx, last_matches, session_tokens,
                 interrupted, history, personalization_sent, user_label, user_name,
                 empty_state, streamVars, wire, keys, ghostVars, pc>>

\* /help
CmdHelp ==
  /\ ReadAtPoll /\ IsEnter(Head(tty)) /\ IsCommand({Txt.help})
  /\ CommandDone(add_block(lines, Txt.SYS, Txt.Help, cols))
  /\ UNCHANGED <<sessionVars, selVars, mode, splash_input, show_ctx, last_matches, session_tokens,
                 interrupted, history, personalization_sent, user_label, user_name,
                 empty_state, streamVars, wire, keys, ghostVars, pc>>

\* Seeded fault for C27: /new also resets the token total
CmdNew_ResetsTotal ==
  /\ ReadAtPoll /\ IsEnter(Head(tty)) /\ IsCommand({Txt.new})
  /\ history' = clear_history(history)
  /\ personalization_sent' = FALSE
  /\ empty_state' = TRUE
  /\ CommandDone(add_shortcut_grid(add_block(<<>>, Txt.SYS, Txt.NewConv, cols),
                                   cols, rows, no_ansi))
  /\ appended' = <<>>
  /\ session_tokens' = 0
  /\ UNCHANGED <<sessionVars, selVars, mode, splash_input, show_ctx, last_matches,
                 interrupted, user_label, user_name, streamVars, wire, keys, ai_writes,
                 ever_interrupted, since_render, watch, pc>>

\* /new
CmdNew ==
  /\ ReadAtPoll /\ IsEnter(Head(tty)) /\ IsCommand({Txt.new})
  /\ history' = clear_history(history)
  /\ personalization_sent' = FALSE
  /\ empty_state' = TRUE
  /\ CommandDone(add_shortcut_grid(add_block(<<>>, Txt.SYS, Txt.NewConv, cols),
                                   cols, rows, no_ansi))
  /\ appended' = <<>>
  /\ UNCHANGED <<sessionVars, selVars, mode, splash_input, show_ctx, last_matches, session_tokens,
                 interrupted, user_label, user_name, streamVars, wire, keys, ai_writes,
                 ever_interrupted, since_render, watch, pc>>

\* Seeded fault for C19: an unknown command also empties the ledger
CmdUnknown_DropsLedger ==
  /\ ReadAtPoll /\ IsEnter(Head(tty))
  /\ mode = "chat" /\ SubmittedLine # <<>> /\ Head(SubmittedLine) = 47
  /\ SubmittedLine \notin Shortcuts
  /\ Split(SubmittedLine)[1] \notin KnownCommands
  /\ CommandDone(add_block(lines, Txt.SYS, Txt.Unknown \o Split(SubmittedLine)[1], cols))
  /\ history' = <<>>
  /\ UNCHANGED <<sessionVars, selVars, mode, splash_input, show_ctx, last_matches,
                 session_tokens, interrupted, personalization_sent, user_label, user_name,
                 empty_state, streamVars, wire, keys, ghostVars, pc>>

\* any other /word: an Unknown block
CmdUnknown ==
  /\ ReadAtPoll /\ IsEnter(Head(tty))
  /\ mode = "chat" /\ SubmittedLine # <<>> /\ Head(SubmittedLine) = 47
  /\ SubmittedLine \notin Shortcuts
  /\ Split(SubmittedLine)[1] \notin KnownCommands
  /\ CommandDone(add_block(lines, Txt.SYS, Txt.Unknown \o Split(SubmittedLine)[1], cols))
  /\ UNCHANGED <<sessionVars, selVars, mode, splash_input, show_ctx, last_matches, session_tokens,
                 interrupted, history, personalization_sent, user_label, user_name,
                 empty_state, streamVars, wire, keys, ghostVars, pc>>

\* a chat message: the user block, then do_stream
ChatLine ==
  /\ ReadAtPoll /\ IsEnter(Head(tty))
  /\ mode = "chat" /\ SubmittedLine # <<>> /\ Head(SubmittedLine) # 47
  /\ input_buf' = <<>>
  /\ empty_state' = FALSE
  /\ BeginStream(add_block(lines, user_prefix(user_label), SubmittedLine, cols),
                 preset_text, SubmittedLine, FALSE)
  /\ UNCHANGED <<sessionVars, selVars, mode, splash_input, show_ctx, session_tokens,
                 personalization_sent, user_label, user_name, llm_session_tokens,
                 wire, keys, ever_interrupted, watch>>

\* Backspace / DEL
Backspace ==
  /\ ReadAtPoll /\ Head(tty) \in {8, 127}
  /\ IF mode = "splash"
     THEN splash_input' = DropLast(splash_input) /\ input_buf' = input_buf
     ELSE input_buf' = DropLast(input_buf) /\ splash_input' = splash_input
  /\ scroll_offset' = flush(mode, lines, scroll_offset)
  /\ frames' = 1
  /\ UNCHANGED <<sessionVars, selVars, mode, lines, status, show_ctx, last_matches, session_tokens,
                 interrupted, history, personalization_sent, user_label, user_name,
                 empty_state, streamVars, wire, keys, ghostVars, pc>>
  /\ status_hint' = frame_hint(mode, no_ansi, input_buf')
  /\ DrawRest(mode, lines, input_buf')

\* Ctrl+U
CtrlU ==
  /\ ReadAtPoll /\ Head(tty) = 21
  /\ IF mode = "splash"
     THEN splash_input' = <<>> /\ input_buf' = input_buf
     ELSE input_buf' = <<>> /\ splash_input' = splash_input
  /\ scroll_offset' = flush(mode, lines, scroll_offset)
  /\ frames' = 1
  /\ UNCHANGED <<sessionVars, selVars, mode, lines, status, show_ctx, last_matches, session_tokens,
                 interrupted, history, personalization_sent, user_label, user_name,
                 empty_state, streamVars, wire, keys, ghostVars, pc>>
  /\ status_hint' = frame_hint(mode, no_ansi, input_buf')
  /\ DrawRest(mode, lines, input_buf')

\* other control bytes, and bytes above 126: dropped without a frame
IgnoreByte ==
  /\ ReadAtPoll
  /\ \/ Head(tty) < 32 /\ Head(tty) \notin {8, 10, 13, 21, 27}
     \/ Head(tty) > 127
  /\ frames' = 0 /\ status_hint' = status_hint /\ UNCHANGED <<view, st>>
  /\ UNCHANGED <<sessionVars, selVars, uiVars, streamVars, wire, keys, ghostVars, pc>>

\* a printable byte other than [ : appended to the buffer of the mode
Printable ==
  /\ ReadAtPoll /\ Head(tty) >= 32 /\ Head(tty) <= 126 /\ Head(tty) # 91
  /\ IF mode = "splash"
     THEN /\ splash_input' = IF Len(splash_input) < splash_input_limit(cols)
                             THEN Append(splash_input, Head(tty)) ELSE splash_input
          /\ input_buf' = input_buf
     ELSE input_buf' = Append(input_buf, Head(tty)) /\ splash_input' = splash_input
  /\ scroll_offset' = flush(mode, lines, scroll_offset)
  /\ Observe(0, IF mode = "chat" THEN 1 ELSE 0, 0)
  /\ frames' = 1
  /\ UNCHANGED <<sessionVars, selVars, mode, lines, status, show_ctx, last_matches, session_tokens,
                 interrupted, history, personalization_sent, user_label, user_name,
                 empty_state, streamVars, wire, keys, streamGhost, pc>>
  /\ status_hint' = frame_hint(mode, no_ansi, input_buf')
  /\ DrawRest(mode, lines, input_buf')

\* ------------------------------------------- the rest of the dispatcher
\* cmd = line.split()
cmd == Split(SubmittedLine)
\* line in ui.shortcuts, for the shortcut sc
IsShortcut(sc) == mode = "chat" /\ SubmittedLine = sc
\* presets.get("tutorial", "Explain this system.")
tutorial_prompt ==
  IF PresetTutorial \in DOMAIN Presets THEN Presets[PresetTutorial] ELSE Txt.Explain
\* What the shortcut and command handlers outside do_stream leave alone
CommandFrame ==
  UNCHANGED <<sessionVars, mode, splash_input, last_matches, session_tokens, interrupted,
              history, personalization_sent, personalization_note, user_label, user_name,
              empty_state, streamVars, wire, keys, ghostVars, pc>>

\* /1: a hint block, and the prompt is prefilled with /search
Cmd1 ==
  /\ ReadAtPoll /\ IsEnter(Head(tty)) /\ IsShortcut(Txt.sc1)
  /\ lines' = add_block(lines, Txt.SYS, Txt.Shortcut1, cols)
  /\ input_buf' = Txt.SearchSp
  /\ scroll_offset' = flush(mode, lines', scroll_offset)
  /\ frames' = 1 /\ status_hint' = frame_hint(mode, no_ansi, Txt.SearchSp)
  /\ CommandFrame
  /\ UNCHANGED <<status, show_ctx, model, preset, preset_text, available_models>>
  /\ DrawRest(mode, lines', Txt.SearchSp)

\* Seeded fault for C21: /2 reports the toggle without flipping it
Cmd2_NoToggle ==
  /\ ReadAtPoll /\ IsEnter(Head(tty)) /\ IsShortcut(Txt.sc2)
  /\ show_ctx' = show_ctx
  /\ CommandDone(add_block(lines, Txt.SYS,
                           Txt.CtxState \o (IF ~show_ctx THEN Txt.on ELSE Txt.off), cols))
  /\ CommandFrame
  /\ UNCHANGED <<model, preset, preset_text, available_models>>

\* /2: the context toggle
Cmd2 ==
  /\ ReadAtPoll /\ IsEnter(Head(tty)) /\ IsShortcut(Txt.sc2)
  /\ show_ctx' = ~show_ctx
  /\ CommandDone(add_block(lines, Txt.SYS,
                           Txt.CtxState \o (IF ~show_ctx THEN Txt.on ELSE Txt.off), cols))
  /\ CommandFrame
  /\ UNCHANGED <<model, preset, preset_text, available_models>>

\* /3: do_stream with the tutorial prompt
Cmd3 ==
  /\ ReadAtPoll /\ IsEnter(Head(tty)) /\ IsShortcut(Txt.sc3)
  /\ input_buf' = <<>>
  /\ BeginStream(lines, tutorial_prompt, Txt.Tutorial, FALSE)
  /\ UNCHANGED <<sessionVars, selVars, mode, splash_input, show_ctx, session_tokens,
                 personalization_sent, user_label, user_name, empty_state,
                 llm_session_tokens, wire, keys, ever_interrupted, watch>>

\* /4: the model list, and the prompt is prefilled with /model
Cmd4 ==
  /\ ReadAtPoll /\ IsEnter(Head(tty)) /\ IsShortcut(Txt.sc4)
  /\ lines' = add_block(lines, Txt.SYS,
                        Txt.ModelsHead \o JoinWith(Txt.CommaSp, available_models)
                        \o Txt.ModelsTail, cols)
  /\ input_buf' = Txt.ModelSp
  /\ scroll_offset' = flush(mode, lines', scroll_offset)
  /\ frames' = 1 /\ status_hint' = frame_hint(mode, no_ansi, Txt.ModelSp)
  /\ CommandFrame
  /\ UNCHANGED <<status, show_ctx, model, preset, preset_text, available_models>>
  /\ DrawRest(mode, lines', Txt.ModelSp)

\* /preset alone: the preset names
CmdPresetList ==
  /\ ReadAtPoll /\ IsEnter(Head(tty)) /\ IsCommand({Txt.preset}) /\ Len(cmd) = 1
  /\ CommandDone(add_block(lines, Txt.SYS,
                           Txt.PresetsHead \o (IF PresetOrder # <<>>
                                               THEN JoinWith(Txt.CommaSp, PresetOrder)
                                               ELSE Txt.none), cols))
  /\ CommandFrame
  /\ UNCHANGED <<show_ctx, model, preset, preset_text, available_models>>

\* /preset with a known name
CmdPresetSet ==
  /\ ReadAtPoll /\ IsEnter(Head(tty)) /\ IsCommand({Txt.preset}) /\ Len(cmd) > 1
  /\ cmd[2] \in DOMAIN Presets
  /\ preset' = cmd[2]
  /\ preset_text' = Presets[cmd[2]]
  /\ CommandDone(add_block(lines, Txt.SYS, Txt.PresetSet \o cmd[2], cols))
  /\ CommandFrame
  /\ UNCHANGED <<show_ctx, model, available_models>>

\* /preset with a name that is no preset
CmdPresetUnknown ==
  /\ ReadAtPoll /\ IsEnter(Head(tty)) /\ IsCommand({Txt.preset}) /\ Len(cmd) > 1
  /\ cmd[2] \notin DOMAIN Presets
  /\ CommandDone(add_block(lines, Txt.SYS, Txt.UnknownPreset \o cmd[2], cols))
  /\ CommandFrame
  /\ UNCHANGED <<show_ctx, model, preset, preset_text, available_models>>

\* /model alone: the current model and the list
CmdModelShow ==
  /\ ReadAtPoll /\ IsEnter(Head(tty)) /\ IsCommand({Txt.model}) /\ Len(cmd) = 1
  /\ CommandDone(add_block(lines, Txt.SYS,
                           Txt.CurrentModel \o model \o Txt.Available
                           \o JoinWith(Txt.CommaSp, available_models), cols))
  /\ CommandFrame
  /\ UNCHANGED <<show_ctx, model, preset, preset_text, available_models>>

\* /model with a name: the name becomes the model, and joins the list
CmdModelSet ==
  /\ ReadAtPoll /\ IsEnter(Head(tty)) /\ IsCommand({Txt.model}) /\ Len(cmd) > 1
  /\ LET name == JoinWith(<<32>>, Tail(cmd))
     IN  /\ model' = name
         /\ available_models' =
              IF \E i \in DOMAIN available_models : available_models[i] = name
              THEN available_models ELSE Append(available_models, name)
         /\ CommandDone(add_block(lines, Txt.SYS, Txt.ModelSet \o name, cols))
  /\ CommandFrame
  /\ UNCHANGED <<show_ctx, preset, preset_text>>

\* /ctx: the context toggle
CmdCtx ==
  /\ ReadAtPoll /\ IsEnter(Head(tty)) /\ IsCommand({Txt.ctx})
  /\ show_ctx' = ~show_ctx
  /\ CommandDone(add_block(lines, Txt.SYS,
                           Txt.CtxState \o (IF ~show_ctx THEN Txt.on ELSE Txt.off), cols))
  /\ CommandFrame
  /\ UNCHANGED <<model, preset, preset_text, available_models>>

\* /tutorial: do_stream with the tutorial prompt
CmdTutorial ==
  /\ ReadAtPoll /\ IsEnter(Head(tty)) /\ IsCommand({Txt.tutorial})
  /\ input_buf' = <<>>
  /\ BeginStream(lines, tutorial_prompt, Txt.Tutorial, FALSE)
  /\ UNCHANGED <<sessionVars, selVars, mode, splash_input, show_ctx, session_tokens,
                 personalization_sent, user_label, user_name, empty_state,
                 llm_session_tokens, wire, keys, ever_interrupted, watch>>

\* /search without a query: the usage block
CmdSearchUsage ==
  /\ ReadAtPoll /\ IsEnter(Head(tty)) /\ IsCommand({Txt.search}) /\ Len(cmd) = 1
  /\ CommandDone(add_block(lines, Txt.SYS, Txt.Usage, cols))
  /\ CommandFrame
  /\ UNCHANGED <<show_ctx, model, preset, preset_text, available_models>>

\* /search with a query: the user block, then do_stream with web search
CmdSearch ==
  /\ ReadAtPoll /\ IsEnter(Head(tty)) /\ IsCommand({Txt.search}) /\ Len(cmd) > 1
  /\ input_buf' = <<>>
  /\ LET query == JoinWith(<<32>>, Tail(cmd))
     IN  BeginStream(add_block(lines, user_prefix(user_label), Txt.SearchTag \o query, cols),
                     preset_text, query, TRUE)
  /\ UNCHANGED <<sessionVars, selVars, mode, splash_input, show_ctx, session_tokens,
                 personalization_sent, user_label, user_name, empty_state,
                 llm_session_tokens, wire, keys, ever_interrupted, watch>>

\* ------------------------------------------------------- escape decoder
\* ESC read: the first bounded wait (select, 0.05 s) begins
EscRead ==
  /\ ReadAtPoll /\ Head(tty) = 27
  /\ pc' = "esc"
  /\ frames' = 0 /\ status_hint' = status_hint /\ UNCHANGED <<view, st>>
  /\ UNCHANGED <<sessionVars, selVars, uiVars, streamVars, wire, keys, ghostVars>>

\* the first wait ends with no byte: ESC alone
EscTimeout ==
  /\ pc = "esc" /\ tty = <<>>
  /\ pc' = "poll"
  /\ Observe(0, 0, 1)
  /\ frames' = 0 /\ status_hint' = status_hint /\ UNCHANGED <<view, st>>
  /\ UNCHANGED <<sessionVars, selVars, uiVars, streamVars, envVars, streamGhost>>

\* Seeded fault for C5: only O opens the second wait
EscFollow_OnlySS3 ==
  /\ pc = "esc" /\ tty # <<>>
  /\ tty' = Tail(tty)
  /\ pc' = IF Head(tty) = 79 THEN "csi" ELSE "poll"
  /\ frames' = 0 /\ status_hint' = status_hint /\ UNCHANGED <<view, st>>
  /\ UNCHANGED <<sessionVars, selVars, uiVars, streamVars, wire, keys, ghostVars>>

\* Seeded fault for C10: a byte other than [ and O is left on the device for
\* the top of the loop to read
EscFollow_Redispatch ==
  /\ pc = "esc" /\ tty # <<>>
  /\ tty' = IF Head(tty) \in {91, 79} THEN Tail(tty) ELSE tty
  /\ pc' = IF Head(tty) \in {91, 79} THEN "csi" ELSE "poll"
  /\ frames' = 0 /\ status_hint' = status_hint /\ UNCHANGED <<view, st>>
  /\ UNCHANGED <<sessionVars, selVars, uiVars, streamVars, wire, keys, ghostVars>>

\* a byte arrives within the first wait: [ or O opens the second wait, any
\* other byte is read and dropped
EscFollow ==
  /\ pc = "esc" /\ tty # <<>>
  /\ tty' = Tail(tty)
  /\ pc' = IF Head(tty) \in {91, 79} THEN "csi" ELSE "poll"
  /\ frames' = 0 /\ status_hint' = status_hint /\ UNCHANGED <<view, st>>
  /\ UNCHANGED <<sessionVars, selVars, uiVars, streamVars, wire, keys, ghostVars>>

\* the second wait ends with no byte
CsiTimeout ==
  /\ pc = "csi" /\ tty = <<>>
  /\ pc' = "poll"
  /\ Observe(0, 0, 1)
  /\ frames' = 0 /\ status_hint' = status_hint /\ UNCHANGED <<view, st>>
  /\ UNCHANGED <<sessionVars, selVars, uiVars, streamVars, envVars, streamGhost>>

\* the final byte: A scrolls up, B scrolls down, anything else is dropped
CsiFinal ==
  /\ pc = "csi" /\ tty # <<>>
  /\ tty' = Tail(tty)
  /\ pc' = "poll"
  /\ scroll_offset' =
       IF Head(tty) = 65
       THEN flush(mode, lines,
                  Min(scroll_offset + 1,
                      Max(Len(lines) - viewport_height(rows, no_ansi), 0)))
       ELSE IF Head(tty) = 66
       THEN flush(mode, lines, Max(scroll_offset - 1, 0))
       ELSE scroll_offset
  /\ frames' = IF Head(tty) \in {65, 66} THEN 1 ELSE 0
  /\ status_hint' = IF Head(tty) \in {65, 66} THEN frame_hint(mode, no_ansi, input_buf)
                     ELSE status_hint
  /\ IF Head(tty) \in {65, 66} THEN DrawRest(mode, lines, input_buf)
                                ELSE UNCHANGED <<view, st>>
  /\ Observe(IF Head(tty) = 65 THEN 1 ELSE 0, 0, 0)
  /\ UNCHANGED <<sessionVars, selVars, mode, lines, splash_input, input_buf, status, show_ctx,
                 last_matches, session_tokens, interrupted, history,
                 personalization_sent, user_label, user_name, empty_state, streamVars,
                 wire, keys, streamGhost>>

\* a bare [ read at the top of the loop: the fragment wait (select, 0.02 s)
BracketRead ==
  /\ ReadAtPoll /\ Head(tty) = 91
  /\ pc' = "frag"
  /\ frames' = 0 /\ status_hint' = status_hint /\ UNCHANGED <<view, st>>
  /\ UNCHANGED <<sessionVars, selVars, uiVars, streamVars, wire, keys, ghostVars>>

\* the fragment wait ends with no byte: the [ is dropped
FragTimeout ==
  /\ pc = "frag" /\ tty = <<>>
  /\ pc' = "poll"
  /\ Observe(0, 0, 1)
  /\ frames' = 0 /\ status_hint' = status_hint /\ UNCHANGED <<view, st>>
  /\ UNCHANGED <<sessionVars, selVars, uiVars, streamVars, envVars, streamGhost>>

\* Seeded fault for C9: after the byte is read the fragment wait starts again
FragFollow_WaitAgain ==
  /\ pc = "frag" /\ tty # <<>>
  /\ tty' = Tail(tty)
  /\ pc' = "frag"
  /\ frames' = 0 /\ status_hint' = status_hint /\ UNCHANGED <<view, st>>
  /\ UNCHANGED <<sessionVars, selVars, uiVars, streamVars, wire, keys, ghostVars>>

\* a byte arrives within the fragment wait: it is read, and dropped with the [
\* whether or not it is a letter
FragFollow ==
  /\ pc = "frag" /\ tty # <<>>
  /\ tty' = Tail(tty)
  /\ pc' = "poll"
  /\ frames' = 0 /\ status_hint' = status_hint /\ UNCHANGED <<view, st>>
  /\ UNCHANGED <<sessionVars, selVars, uiVars, streamVars, wire, keys, ghostVars>>

\* ---------------------------------------------------------- specification
MainLoop ==
  \/ EnterSplashQuit \/ EnterSplash \/ EnterEmpty
  \/ CmdQuit \/ CmdClear \/ CmdHelp \/ CmdNew \/ CmdUnknown \/ ChatLine
  \/ Backspace \/ CtrlU \/ IgnoreByte \/ Printable
  \/ EscRead \/ EscTimeout \/ EscFollow \/ CsiTimeout \/ CsiFinal
  \/ BracketRead \/ FragTimeout \/ FragFollow

Transport ==
  \/ CreateOk
  \/ CreateFail
  \/ UpFail
  \/ \E a \in Annotations : UpAnnotation(a)
  \/ \E t \in UsageTotals : UpCompleted(t)
  \/ \E dt \in 0..MaxDt : StreamDelta(dt)
  \/ StreamEnd
  \/ StreamInterrupt

User ==
  \/ \E k \in Keys : KeyPress(k)
  \/ Deliver

Next == MainLoop \/ Transport \/ User

Spec == Init /\ [][Next]_vars

\* ------------------------------------------------ the command dispatcher
\* The dispatcher with every command: the user commits the splash screen,
\* then types up to MaxCmds whole lines, each on an empty prompt or behind the
\* text a shortcut prefilled; responses stream to their end.  The observer
\* follows a typed shortcut line until the next line is typed.
TypeLine(k) ==
  /\ pc = "poll" /\ tty = <<>> /\ wire = <<>>
  /\ \/ mode = "splash" /\ k = KeyEnter /\ keys' = keys
     \/ /\ mode = "chat" /\ keys < MaxCmds /\ keys' = keys + 1
        /\ IF input_buf = <<>> THEN k \in CmdLines ELSE k \in ArgLines
  /\ tty' = k
  /\ watch' = IF k \in ShortcutLines THEN [WatchOff EXCEPT !.key = k] ELSE WatchOff
  /\ UNCHANGED <<frameVars, sessionVars, selVars, uiVars, streamVars, wire, streamGhost, pc>>

Dispatcher ==
  \/ EnterSplash \/ Printable
  \/ CmdQuit \/ CmdClear \/ CmdHelp \/ CmdNew \/ CmdUnknown \/ ChatLine
  \/ Cmd1 \/ Cmd2 \/ Cmd3 \/ Cmd4
  \/ CmdPresetList \/ CmdPresetSet \/ CmdPresetUnknown \/ CmdModelShow \/ CmdModelSet
  \/ CmdCtx \/ CmdTutorial \/ CmdSearchUsage \/ CmdSearch

TransportCmd ==
  \/ CreateOk
  \/ \E t \in UsageTotals : UpCompleted(t)
  \/ \E dt \in 0..MaxDt : StreamDelta(dt)
  \/ StreamEnd

NextCmd ==
  \/ \E k \in CmdLines \cup ArgLines \cup {KeyEnter} : TypeLine(k)
  \/ Dispatcher
  \/ TransportCmd

SpecCmd == Init /\ [][NextCmd]_vars

\* ------------------------------------------------- the ledger on its own
\* add_to_history and clear_history applied to the ledger of a fresh UI more
\* often than the cap allows entries.  Roles alternate as do_stream's two
\* calls do; the n-th entry since the last clear has content n, and the first
\* MaxVaried entries may instead carry a two-character content.
HistoryContents(n) == IF n <= MaxVaried THEN { <<n>>, <<n, n>> } ELSE { <<n>> }

HistoryAdd ==
  /\ Len(appended) < MaxAppends
  /\ \E content \in HistoryContents(Len(appended) + 1) :
       LET role == IF Len(appended) % 2 = 0 THEN "user" ELSE "assistant"
       IN  /\ history' = add_to_history(history, role, content)
           /\ appended' = Append(appended, [role |-> role, content |-> content])
  /\ UNCHANGED <<frameVars, sessionVars, selVars, mode, lines, splash_input, input_buf, status, show_ctx,
                 last_matches, session_tokens, interrupted, scroll_offset,
                 personalization_sent, user_label, user_name, empty_state, streamVars,
                 envVars, ai_writes, ever_interrupted, since_render, watch, pc>>

HistoryClear ==
  /\ history' = clear_history(history)
  /\ appended' = <<>>
  /\ UNCHANGED <<frameVars, sessionVars, selVars, mode, lines, splash_input, input_buf, status, show_ctx,
                 last_matches, session_tokens, interrupted, scroll_offset,
                 personalization_sent, user_label, user_name, empty_state, streamVars,
                 envVars, ai_writes, ever_interrupted, since_render, watch, pc>>

NextHistory == HistoryAdd \/ HistoryClear

SpecHistory == Init /\ [][NextHistory]_vars

\* ------------------------------------------------------------------ claims
IsPrefix(s, t) == Len(s) <= Len(t) /\ SubSeq(t, 1, Len(s)) = s
\* The status holds the part "stopped"
HasStopped(parts) == \E i \in DOMAIN parts : parts[i] = "stopped"
\* The step on which do_stream returns to main's loop
StreamFinishes == pc = "stream" /\ pc' = "poll"
\* The bytes of the followed key have all been read and the loop polls again
WatchDone == watch.key # <<>> /\ pc = "poll" /\ wire = <<>> /\ tty = <<>>
\* The step on which do_stream hands its request to the transport
StreamBegins == pc # "create" /\ pc' = "create"
\* The step on which the transport delivers a chunk to do_stream's loop body: a
\* text chunk is accumulated, or the loop ends
ChunkDelivered == pc = "stream" /\ (out' # out \/ pc' = "poll")
\* The cancel key is the next byte readable on the device
EscPending == tty # <<>> /\ Head(tty) = 27
\* The last entry of a ledger or payload
Last(h) == h[Len(h)]
IsSuffix(s, t) == Len(s) <= Len(t) /\ SubSeq(t, Len(t) - Len(s) + 1, Len(t)) = s
\* The step on which main's Enter branch handles a submitted command line
CommandSubmitted ==
  /\ pc = "poll" /\ mode = "chat" /\ tty # <<>> /\ IsEnter(Head(tty))
  /\ SubmittedLine # <<>> /\ Head(SubmittedLine) = 47
  /\ tty' = Tail(tty)
\* The submitted line is the command name, with or without arguments
Submitted(name) == SubmittedLine \notin Shortcuts /\ cmd[1] = name
\* The submitted command ends the loop; hands a request to do_stream
QuitSubmitted == Submitted(Txt.q) \/ Submitted(Txt.quit)
StreamSubmitted ==
  \/ SubmittedLine = Txt.sc3
  \/ Submitted(Txt.tutorial)
  \/ Submitted(Txt.search) /\ Len(cmd) > 1
UnknownSubmitted == SubmittedLine \notin Shortcuts /\ cmd[1] \notin KnownCommands
UnknownPresetSubmitted ==
  Submitted(Txt.preset) /\ Len(cmd) > 1 /\ cmd[2] \notin DOMAIN Presets
\* The step on which main's Enter branch runs in splash mode
SplashEnter ==
  pc = "poll" /\ mode = "splash" /\ tty # <<>> /\ IsEnter(Head(tty)) /\ tty' = Tail(tty)
\* The name typed on the splash screen, without surrounding blanks
TypedName == Strip(splash_input)
\* The known commands the input buffer is a prefix of, in the order of UI.commands
MatchingCommands == SelectSeq(commands, LAMBDA c : StartsWith(c, input_buf))
\* The input buffer is a proper prefix of a known command name
ProperPrefix ==
  /\ input_buf # <<>> /\ Head(input_buf) = 47 /\ MatchingCommands # <<>>
  /\ \A i \in DOMAIN commands : commands[i] # input_buf
\* What the context toggle does to the screen model: the toggle is flipped,
\* one system block reports the new state, the status is Idle
CtxEffect ==
  /\ show_ctx' = ~show_ctx
  /\ lines' = lines \o BlockLines(Txt.SYS,
                                  Txt.CtxState \o (IF show_ctx' THEN Txt.on ELSE Txt.off), cols)
  /\ status' = <<"Idle">> /\ input_buf' = <<>> /\ pc' = "poll" /\ frames' = 1
  /\ UNCHANGED <<mode, history, payload, last_matches, session_tokens, empty_state,
                 personalization_sent, selVars>>
\* What the tutorial request does: do_stream is entered with the tutorial
\* prompt and the fixed tutorial message, and no user block is drawn
TutorialEffect ==
  /\ pc' = "create" /\ input_buf' = <<>> /\ lines' = lines
  /\ status' = <<"Thinking...">>
  /\ payload'[1].role = "system"
  /\ Contains(payload'[1].content, tutorial_prompt)
  /\ (preset_text # tutorial_prompt /\ preset_text # <<>>)
       => ~Contains(payload'[1].content, preset_text)
  /\ Last(payload') = [role |-> "user", content |-> Txt.Tutorial]
  /\ Last(history') = Last(payload')
  /\ UNCHANGED <<mode, show_ctx, session_tokens, empty_state, personalization_sent, selVars>>
\* What a prefilling shortcut does: one system block, the stub in the input
\* buffer, no request
PrefillEffect(stub) ==
  /\ pc' = "poll" /\ input_buf' = stub /\ frames' = 1
  /\ Len(lines') > Len(lines) /\ IsPrefix(lines, lines')
  /\ StartsWith(lines'[Len(lines) + 1], Take(Txt.SYS, cols))
  /\ UNCHANGED <<mode, show_ctx, status, history, payload, last_matches, session_tokens,
                 empty_state, personalization_sent, selVars>>
DecoderStates == {"esc", "csi", "frag"}
\* A step the program takes inside the decoder
DecoderStep == pc \in DecoderStates /\ (pc' # pc \/ Len(tty') < Len(tty))

\* C1: whenever the loop waits for the next input byte, scroll_offset lies in
\* 0 .. max(len(lines) - viewport_height, 0).
C1_ScrollInRange ==
  pc = "poll" =>
    /\ scroll_offset >= 0
    /\ scroll_offset <= Max(Len(lines) - viewport_height(rows, no_ansi), 0)

\* C2: the ledger never holds more than max_history entries, and it is the
\* most recent min(k, max_history) of the k entries appended since the last
\* clear, in their order and with their contents.
C2_LedgerKeepsNewest ==
  /\ Len(history) <= max_history
  /\ history = SubSeq(appended, Len(appended) - Min(Len(appended), max_history) + 1,
                      Len(appended))
\* the cap has been exceeded and the oldest entries evicted
C2_Evicted == Len(appended) > max_history /\ Len(history) = max_history

\* C3 (as amended): when a stream ends on the cancel key, the assistant block
\* is the concatenation of the chunks accumulated so far followed by the
\* marker, with surrounding whitespace trimmed, and the status holds
\* "stopped"; when a stream ends without the cancel key the status does not
\* hold "stopped", whatever happened to earlier streams.
C3_InterruptedBlock ==
  [][ StreamFinishes =>
        IF CancelByte = 27
        THEN /\ lines' = Take(lines, ai_block_start)
                           \o BlockLines(Txt.AI, Strip(Join(out) \o Txt.Interrupted), cols)
             /\ HasStopped(status')
        ELSE ~HasStopped(status') ]_vars
\* a stream that ran to its end after an earlier one was interrupted with
\* chunks accumulated
C3_CompletedAfterInterrupted ==
  /\ pc = "poll" /\ ever_interrupted /\ ~interrupted /\ ~HasStopped(status)
  /\ Len(history) = 4 /\ history[2].content # Strip(Txt.Interrupted)
\* C3 as stated: the block is exactly the concatenation followed by the marker
C3_ExactConcatenation ==
  [][ (StreamFinishes /\ CancelByte = 27 /\ out # <<>>) =>
        lines' = Take(lines, ai_block_start)
                   \o BlockLines(Txt.AI, Join(out) \o Txt.Interrupted, cols) ]_vars

\* C4: a transport failure at request creation or at a chunk leaves an error
\* block in the transcript, status Idle, and the loop polling for input.
C4_FailureSurfaced ==
  [][ (CreateFail \/ UpFail) =>
        /\ pc' = "poll"
        /\ status' = <<"Idle">>
        /\ Len(lines') > Len(lines) ]_vars

\* C5 (as amended): for ESC [ A pressed at the chat prompt, when no decoder
\* wait expires before the next byte arrives the loop makes exactly one
\* ArrowUp and appends nothing to the input buffer; when a wait expires it
\* makes no ArrowUp and appends at most the final byte.
C5_ArrowUpByTiming ==
  (WatchDone /\ watch.key = KeyUp) =>
    IF watch.timeouts = 0
    THEN watch.ups = 1 /\ watch.chars = 0
    ELSE watch.ups = 0 /\ watch.chars <= 1
\* the three bytes arrived within the waits and were decoded
C5_DecodedInTime ==
  WatchDone /\ watch.key = KeyUp /\ watch.timeouts = 0 /\ watch.ups = 1
\* C5 as stated: one ArrowUp and no character under every timing
C5_ArrowUpAlways ==
  (WatchDone /\ watch.key = KeyUp) => (watch.ups = 1 /\ watch.chars = 0)

\* C6 (as amended): a delta is followed by a redraw exactly when more than
\* refresh_ms has passed since the last redraw or the start of the stream, no
\* other upstream event redraws, and with a refresh interval no stream outlasts
\* the assistant block is written once, at completion, holding the
\* concatenation of all chunks with surrounding whitespace trimmed.
C6_RedrawThrottle ==
  [][ /\ (pc = "stream" /\ pc' = "stream" /\ out' # out) =>
           /\ ai_writes' = ai_writes + (IF since_render' > refresh_ms THEN 1 ELSE 0)
           /\ ai_writes' = ai_writes => lines' = lines
      /\ (pc = "stream" /\ pc' = "stream" /\ out' = out) =>
           (ai_writes' = ai_writes /\ lines' = lines)
      /\ (refresh_ms >= RefreshLong /\ StreamFinishes /\ CancelByte # 27) =>
           /\ ai_writes = 0
           /\ IsPrefix(Take(lines, ai_block_start)
                         \o BlockLines(Txt.AI, Strip(Join(out)), cols), lines') ]_vars
\* two chunks were shown by a single write at completion
C6_SingleWrite ==
  /\ pc = "poll" /\ refresh_ms >= RefreshLong
  /\ Len(history) = 2 /\ history[2].content = Strip(Delta(1) \o Delta(2))
\* C6 as stated: the block holds the concatenation of all chunks
C6_ExactConcatenation ==
  [][ (refresh_ms >= RefreshLong /\ StreamFinishes /\ CancelByte # 27) =>
        IsPrefix(Take(lines, ai_block_start)
                   \o BlockLines(Txt.AI, Join(out), cols), lines') ]_vars

\* C7: every line of the transcript is at most cols characters long.
C7_LinesFit == \A i \in DOMAIN lines : Len(lines[i]) <= cols

\* C8 (as amended): across every step other than /clear, /new and the splash
\* commit, the lines of the transcript stay where they are with their
\* content, except that while a response streams the lines from
\* ai_block_start on, the assistant block of that response, are replaced.
C8_AppendOnlyOutsideBlock ==
  [][ \/ CmdClear \/ CmdNew \/ EnterSplash
      \/ IF pc = "stream"
         THEN IsPrefix(Take(lines, ai_block_start), lines')
         ELSE IsPrefix(lines, lines') ]_vars
\* a streamed block drawn before its response has ended
C8_BlockDrawnMidStream ==
  pc = "stream" /\ ai_writes >= 1 /\ Len(lines) > ai_block_start
\* C8 as stated: no step but /clear, /new and the splash commit changes a line
C8_AppendOnly ==
  [][ CmdClear \/ CmdNew \/ EnterSplash \/ IsPrefix(lines, lines') ]_vars

\* C9: once ESC or a bare [ is read, each step of the decoder can be taken
\* whether or not a byte is there, reads at most one byte, never fails, and
\* leads from the first wait to the second wait or the poll loop, and from
\* the second wait and the fragment wait to the poll loop: at most two waits
\* and two further bytes.
C9_DecoderReturns ==
  /\ [](pc \in DecoderStates =>
          ENABLED (EscTimeout \/ EscFollow \/ CsiTimeout \/ CsiFinal
                     \/ FragTimeout \/ FragFollow))
  /\ [][ DecoderStep =>
           /\ pc = "esc" => pc' \in {"csi", "poll"}
           /\ pc \in {"csi", "frag"} => pc' = "poll"
           /\ Len(tty) - Len(tty') <= 1 ]_vars
\* the second wait is running while the final byte is still on its way
C9_SecondWait == pc = "csi" /\ tty = <<>> /\ wire # <<>>

\* C10 (as amended): after ESC, a follow-on byte other than [ and O that
\* arrives within the wait is read and discarded: it changes nothing in the
\* screen model and the decoder returns to the poll loop.
C10_FollowOnDiscarded ==
  [][ (pc = "esc" /\ tty # <<>> /\ Head(tty) \notin {91, 79} /\ pc' # pc) =>
        /\ pc' = "poll" /\ tty' = Tail(tty)
        /\ UNCHANGED uiVars ]_vars
\* Alt-x arrived whole within the wait and has been read
C10_AltXSwallowed ==
  WatchDone /\ watch.key = KeyAltX /\ watch.timeouts = 0
\* C10 as stated: the follow-on byte acts as it would at the top of the loop,
\* so the x of Alt-x is appended to the input buffer
C10_FollowOnRedispatched ==
  (WatchDone /\ watch.key = KeyAltX /\ watch.timeouts = 0) => watch.chars = 1

\* C11: a bare [ read at the top of the loop is never appended to the input
\* buffer; a letter arriving within the fragment wait is dropped with it; a
\* byte that is not a letter is still decoded as a key of its own, so the
\* digit of [1 is appended to the input buffer under every timing.
C11_FollowerDecoded ==
  /\ (WatchDone /\ watch.key = KeyFrag /\ watch.timeouts = 0) => watch.chars = 0
  /\ (WatchDone /\ watch.key = KeyBracketDigit) => watch.chars = 1

\* C12: of the requests of one conversation (from the splash commit or a /new
\* to the next /new) exactly the first holds the personalization note in its
\* system block.
C12_NoteInFirstRequestOnly ==
  [][ StreamBegins =>
        /\ personalization_note # <<>>
        /\ payload'[1].role = "system"
        /\ Contains(payload'[1].content, personalization_note) <=> (appended = <<>>) ]_vars
\* a second request of a conversation, sent without the note
C12_LaterRequestWithoutNote ==
  /\ pc = "create" /\ Len(appended) = 3
  /\ ~Contains(payload[1].content, personalization_note)

\* C13: while a response streams a byte is read from the device only on the
\* delivery of a chunk, at most one byte per chunk; a pending cancel key is
\* left alone by every other step; a chunk delivered with the cancel key
\* pending ends the stream as interrupted and its text reaches neither the
\* transcript nor the ledger; outside a stream nothing is accumulated.
C13_CancelAtChunkBoundary ==
  /\ [](pc \in {"poll", "esc", "csi", "frag", "exit"} => (out = <<>> /\ nevents = 0))
  /\ [][ /\ ChunkDelivered => tty' = (IF tty = <<>> THEN tty ELSE Tail(tty))
         /\ (pc \in {"create", "stream"} /\ ~ChunkDelivered) =>
              (Len(tty') >= Len(tty) /\ interrupted' = interrupted /\ pc' # "poll")
         /\ (ChunkDelivered /\ EscPending) =>
              /\ pc' = "poll" /\ interrupted'
              /\ lines' = Take(lines, ai_block_start)
                            \o BlockLines(Txt.AI, Strip(Join(out) \o Txt.Interrupted), cols)
              /\ Last(history').content = Strip(Join(out) \o Txt.Interrupted)
         /\ (ChunkDelivered /\ ~EscPending) => ~interrupted' ]_vars
\* the cancel key is pending and an upstream event has passed without it
\* being acted on
C13_CancelPending ==
  pc = "stream" /\ EscPending /\ citations # <<>> /\ out = <<>> /\ ~interrupted

\* C14: the step that ends a stream, normally or on the cancel key, appends
\* exactly one entry to the ledger: an assistant entry, right after the user
\* entry of the request, whose content is the trimmed text of the assistant
\* block the transcript then shows, ending in the marker when interrupted.
C14_AssistantEntry ==
  [][ StreamFinishes =>
        /\ Len(history') = Min(Len(history) + 1, max_history)
        /\ SubSeq(history', 1, Len(history') - 1)
             = SubSeq(history, Len(history) - Len(history') + 2, Len(history))
        /\ Last(history').role = "assistant"
        /\ history'[Len(history') - 1] = Last(payload)
        /\ Last(payload).role = "user"
        /\ Last(history').content = Strip(Last(history').content)
        /\ IsPrefix(Take(lines, ai_block_start)
                      \o BlockLines(Txt.AI, Last(history').content, cols), lines')
        /\ Last(history').content = Strip(Join(out) \o (IF interrupted' THEN Txt.Interrupted
                                                                        ELSE <<>>)) ]_vars
\* an interrupted exchange in the ledger: the user entry, then the chunk with
\* the marker
C14_InterruptedInLedger ==
  /\ pc = "poll" /\ interrupted /\ Len(history) = 2
  /\ history[1].role = "user"
  /\ history[2] = [role |-> "assistant", content |-> Strip(Delta(1) \o Txt.Interrupted)]

\* C15: the request is the system block, then the ledger as it was before
\* this exchange (at most max_history entries), then the new user message,
\* which the ledger part does not yet hold.
C15_PayloadOrder ==
  [][ StreamBegins =>
        /\ Len(history) <= max_history
        /\ Len(payload') = Len(history) + 2
        /\ payload'[1].role = "system" /\ StartsWith(payload'[1].content, SystemPrompt)
        /\ SubSeq(payload', 2, Len(payload') - 1) = history
        /\ Last(payload').role = "user"
        /\ Last(payload') = Last(history') ]_vars
\* a request that carries an earlier exchange between the system block and
\* the new message
C15_RequestWithLedger ==
  pc = "create" /\ Len(payload) = 4 /\ payload[2].role = "user" /\ payload[3].role = "assistant"

\* C16: a submitted command line that does not go to do_stream has one frame
\* written, drawn from the screen model as the command left it, when the loop
\* next waits for input; /tutorial, /3 and /search with a query go to do_stream; /quit (alias
\* /q) ends the loop and no other command does.
C16_CommandEndsWithFrame ==
  [][ CommandSubmitted =>
        IF QuitSubmitted THEN pc' = "exit"
        ELSE IF StreamSubmitted THEN pc' = "create"
        ELSE /\ pc' = "poll" /\ frames' = 1
             /\ status_hint' = frame_hint(mode', no_ansi, input_buf')
             /\ scroll_offset' = clamp_scroll(lines', scroll_offset,
                                              render_height(rows, no_ansi)) ]_vars
\* /4 has drawn its block and prefilled the prompt
C16_FrameAfterShortcut ==
  pc = "poll" /\ input_buf = Txt.ModelSp /\ frames = 1 /\ tty = <<>> /\ Len(lines) > 0

\* C17 (as amended): Enter in splash mode with /q or /quit typed ends the loop
\* with the mode still splash; any other Enter in splash mode commits the
\* typed name, or Operator when it is blank, sets the mode to chat and leaves
\* as transcript the welcome block followed by the shortcut grid; the mode
\* never goes back from chat to splash; before the commit the transcript and
\* the chat input buffer stay empty.
C17_SplashCommit ==
  /\ [](mode = "splash" => (lines = <<>> /\ input_buf = <<>>))
  /\ [][ /\ SplashEnter =>
              IF TypedName \in {Txt.q, Txt.quit}
              THEN pc' = "exit" /\ mode' = "splash" /\ user_name' = user_name
              ELSE /\ mode' = "chat" /\ pc' = "poll"
                   /\ user_name' = (IF TypedName = <<>> THEN Txt.Operator ELSE TypedName)
                   /\ user_label' = Upper(user_name')
                   /\ lines' = add_shortcut_grid(
                                 BlockLines(Txt.SYS,
                                            Txt.LinkedAs \o user_label' \o Txt.TypeHelp, cols),
                                 cols, rows, no_ansi)
         /\ mode = "chat" => mode' = "chat"
         /\ (mode = "splash" /\ ~SplashEnter) => mode' = "splash" ]_vars
\* a typed name was committed
C17_TypedNameCommitted ==
  mode = "chat" /\ user_name = KeyChar /\ user_label = Upper(KeyChar) /\ Len(lines) > 2
\* C17 as stated: every Enter in splash mode commits and sets the mode to chat
C17_EnterAlwaysCommits ==
  [][ SplashEnter => mode' = "chat" ]_vars

\* C18: /new leaves the ledger empty and, as transcript, the new-conversation
\* block followed by the shortcut grid, whatever the transcript held; the
\* model, the preset and the preset text stay as they were.
C18_NewReplacesConversation ==
  [][ (CommandSubmitted /\ Submitted(Txt.new)) =>
        /\ history' = <<>>
        /\ lines' = add_shortcut_grid(BlockLines(Txt.SYS, Txt.NewConv, cols),
                                      cols, rows, no_ansi)
        /\ model' = model /\ preset' = preset /\ preset_text' = preset_text
        /\ available_models' = available_models ]_vars
\* a new conversation after a completed exchange, with a model chosen by
\* command still selected
C18_NewAfterExchange ==
  /\ pc = "poll" /\ history = <<>> /\ session_tokens > 0 /\ model # DefaultModel
  /\ lines = add_shortcut_grid(BlockLines(Txt.SYS, Txt.NewConv, cols), cols, rows, no_ansi)

\* C19: an unknown command, and /preset with an unknown name, append one
\* system block that names the token, leave the model, the preset, its text,
\* the ledger and the context toggle as they were, start no stream, and the
\* loop polls again.
C19_UnknownIsInline ==
  [][ (CommandSubmitted /\ (UnknownSubmitted \/ UnknownPresetSubmitted)) =>
        /\ lines' = lines \o BlockLines(Txt.SYS,
                                        IF UnknownSubmitted THEN Txt.Unknown \o cmd[1]
                                        ELSE Txt.UnknownPreset \o cmd[2], cols)
        /\ UNCHANGED <<model, preset, preset_text, history, show_ctx>>
        /\ pc' = "poll" ]_vars
\* /preset zz was answered while the preset chosen before is still active
C19_UnknownPresetKeepsPreset ==
  /\ pc = "poll" /\ preset = PresetTerse /\ preset_text = Presets[PresetTerse]
  /\ IsSuffix(BlockLines(Txt.SYS, Txt.UnknownPreset \o <<122, 122>>, cols), lines)

\* C20 (as amended): in decorated mode, for an input buffer that is a proper
\* prefix of known command names the status row lists the first HintLimit of
\* the known commands that start with the buffer, in the order of
\* UI.commands; for any other buffer, and in plain mode, there is no command
\* hint.
C20_HintFirstFour ==
  (pc = "poll" /\ mode = "chat") =>
    IF ~no_ansi /\ ProperPrefix
    THEN Split(status_hint) = Take(MatchingCommands, HintLimit)
    ELSE status_hint = <<>>
\* /mo is in the buffer and the status row hints /model alone
C20_HintForMo ==
  pc = "poll" /\ input_buf = <<47, 109, 111>> /\ status_hint = Txt.model
\* C20 as stated: the hint lists exactly the known commands that start with
\* the buffer
C20_HintListsAll ==
  (pc = "poll" /\ mode = "chat" /\ ProperPrefix) =>
    { Split(status_hint)[i] : i \in DOMAIN Split(status_hint) }
      = { MatchingCommands[i] : i \in DOMAIN MatchingCommands }

\* C21: /2 and /ctx have the same effect on the screen model (toggle flipped,
\* one system block, status Idle); /3 and /tutorial enter do_stream with the
\* same request; /1 and /4 send no request and leave /search and /model, each
\* followed by a blank, in the input buffer.
C21_ShortcutsAsCommands ==
  [][ CommandSubmitted =>
        /\ (SubmittedLine = Txt.sc2 \/ Submitted(Txt.ctx)) => CtxEffect
        /\ (SubmittedLine = Txt.sc3 \/ Submitted(Txt.tutorial)) => TutorialEffect
        /\ SubmittedLine = Txt.sc1 => PrefillEffect(Txt.search \o <<32>>)
        /\ SubmittedLine = Txt.sc4 => PrefillEffect(Txt.model \o <<32>>) ]_vars
\* /2 was typed and has switched the context off
C21_ToggledByShortcut ==
  /\ pc = "poll" /\ tty = <<>> /\ watch.key = Line2 /\ ~show_ctx
  /\ status = <<"Idle">> /\ input_buf = <<>>
  /\ IsSuffix(BlockLines(Txt.SYS, Txt.CtxState \o Txt.off, cols), lines)

\* C22: the frame's transcript rows are drawn with scroll_offset clamped into
\* 0 .. max(len(lines) - height, 0), and they are exactly the lines whose
\* 0-based indices lie in [len(lines) - height - scroll_offset,
\* len(lines) - scroll_offset), as far as the transcript holds them: at most
\* height lines, the last height lines when scroll_offset is 0, every line
\* when the transcript is shorter than height.
C22_ViewWindow ==
  mode = "chat" =>
    LET height == render_height(rows, no_ansi)
        n      == Len(lines)
        lo     == n - height - scroll_offset
        hi     == n - scroll_offset
    IN  /\ scroll_offset >= 0 /\ scroll_offset <= Max(n - height, 0)
        /\ view = [i \in 1 .. (Min(hi, n) - Max(lo, 0)) |-> lines[Max(lo, 0) + i]]
        /\ Len(view) <= height
        /\ (scroll_offset = 0 /\ n >= height) => IsSuffix(view, lines) /\ Len(view) = height
        /\ n < height => view = lines
\* the window is scrolled back: a full window that ends above the last line
C22_ScrolledWindow ==
  /\ mode = "chat" /\ scroll_offset > 0 /\ Len(view) > 0
  /\ Len(view) = render_height(rows, no_ansi)
  /\ view = SubSeq(lines, Len(lines) - scroll_offset - Len(view) + 1, Len(lines) - scroll_offset)

\* The lines ls are one block: lines of text closed by a single blank line
OneBlock(ls) ==
  /\ ls # <<>> /\ Last(ls) = <<>>
  /\ \A i \in 1 .. (Len(ls) - 1) : ls[i] # <<>>
\* The transcript from the index it had when the stream began
StreamedPart == Drop(lines, ai_block_start)

\* What a step taken while a response streams does to the transcript
StreamStepKeeps ==
  pc \in {"create", "stream"} =>
    /\ Take(lines', ai_block_start) = Take(lines, ai_block_start)
    /\ pc' = "poll" =>
        (LET final == BlockLines(Txt.AI, Last(history').content, cols)
             rest  == Drop(lines', ai_block_start + Len(final))
         IN  /\ OneBlock(final)
             /\ SubSeq(lines', ai_block_start + 1, ai_block_start + Len(final)) = final
             /\ Last(history').content
                  = Strip(Join(out) \o (IF interrupted' THEN Txt.Interrupted ELSE <<>>))
             /\ rest = <<>> \/ (OneBlock(rest) /\ StartsWith(rest[1], Take(Txt.SRC, 4))))

\* C23 (as amended): while a response streams and on its completion the lines
\* the transcript held when the stream began stay as they are; behind them
\* there is nothing until the first streaming redraw, then exactly one
\* assistant block, holding the text accumulated up to the latest redraw; on
\* completion exactly one assistant block holding the trimmed final text
\* (with the marker when interrupted), followed by at most one citation
\* block.
C23_ReplaceInPlace ==
  /\ [](pc \in {"create", "stream"} =>
          /\ Len(lines) >= ai_block_start
          /\ ai_writes = 0 => StreamedPart = <<>>
          /\ ai_writes > 0 =>
                /\ OneBlock(StreamedPart)
                /\ \E k \in 1 .. Len(out) :
                      StreamedPart = BlockLines(Txt.AI, Join(Take(out, k)), cols))
  /\ [][StreamStepKeeps]_vars
\* the second streaming redraw of a response has replaced the block of the
\* first
C23_RedrawnTwice ==
  /\ pc = "stream" /\ ai_writes = 2 /\ Len(out) = 2
  /\ StreamedPart = BlockLines(Txt.AI, Join(out), cols)
\* C23 as stated: throughout a stream the block holds the text accumulated so
\* far
C23_BlockHoldsCurrentText ==
  (pc = "stream" /\ out # <<>>) => StreamedPart = BlockLines(Txt.AI, Join(out), cols)

\* The input buffer names the model-selection command
NamesModelCommand == StartsWith(Lower(Lstrip(input_buf)), Txt.model)
\* The text typed behind /model, and the available models that hold it
ModelTyped == Lower(Strip(Drop(Lstrip(input_buf), Len(Txt.model))))
MatchingModels ==
  IF ModelTyped = <<>> THEN available_models
  ELSE SelectSeq(available_models, LAMBDA m : Contains(Lower(m), ModelTyped))

\* C24: the status row of a decorated chat frame shows exactly one part, the
\* first that applies: the matching command names when the buffer is a proper
\* prefix of known commands; else the matching model identifiers when the
\* buffer names the model command; else the default status.  The command hint
\* and the model hint are never shown together.
C24_StatusRowPriority ==
  (pc = "poll" /\ mode = "chat" /\ ~no_ansi) =>
    /\ Len(st) = 1
    /\ IF ProperPrefix
       THEN st[1] = [kind |-> "cmd_hint",
                     text |-> JoinWith(Txt.TwoSp, Take(MatchingCommands, HintLimit))]
       ELSE IF NamesModelCommand
       THEN /\ st[1].kind = "model_hint"
            /\ StartsWith(st[1].text, Txt.modelsColon)
            /\ Drop(st[1].text, Len(Txt.modelsColon))
                 = (IF MatchingModels = <<>> THEN Txt.none
                    ELSE JoinWith(Txt.TwoSp, MatchingModels))
       ELSE st[1] = [kind |-> "status", text |-> <<>>]
\* /model and a blank are in the buffer and the row lists every available
\* model
C24_ModelsListed ==
  /\ pc = "poll" /\ input_buf = Txt.model \o <<32>> /\ Len(st) = 1
  /\ st[1].kind = "model_hint"
  /\ Split(Drop(st[1].text, Len(Txt.modelsColon))) = AvailableModels

\* The ledger h is made of whole exchanges in order: it starts with a user
\* entry and the roles alternate
StartsWithUserAndAlternates(h) ==
  \A i \in DOMAIN h : h[i].role = (IF i % 2 = 1 THEN "user" ELSE "assistant")

\* C25: after every append and trim, and so whenever a request is built from
\* it, the ledger starts with a user entry and its roles alternate user,
\* assistant.
C25_WholePairs == StartsWithUserAndAlternates(history)

\* C26: a step taken while a response streams reads at most one byte from the
\* device; a byte other than ESC that is pending when a chunk is delivered is
\* read and dropped: the stream is not interrupted, the input buffer stays as
\* it is and no command is dispatched; an ESC pending then interrupts the
\* stream, whether it is the ESC key or the first byte of an arrow key whose
\* other bytes are still to come.
C26_CancelCheckReadsOneByte ==
  [][ pc = "stream" =>
        /\ Len(tty') >= Len(tty) - 1
        /\ input_buf' = input_buf
        /\ (ChunkDelivered /\ tty # <<>>) => tty' = Tail(tty)
        /\ (ChunkDelivered /\ tty # <<>> /\ Head(tty) # 27) =>
             /\ ~interrupted' /\ pc' \in {"stream", "poll"}
             /\ ~HasStopped(status')
             /\ pc' = "poll" => Last(history').content = Strip(Join(out))
        /\ (ChunkDelivered /\ tty # <<>> /\ Head(tty) = 27) =>
             /\ interrupted' /\ pc' = "poll" /\ HasStopped(status') ]_vars
\* the first byte of an arrow key has stopped the stream and its other bytes
\* are still on their way
C26_StoppedByArrowKey ==
  pc = "poll" /\ interrupted /\ HasStopped(status) /\ wire = Tail(KeyUp) /\ tty = <<>>

\* C27: the token total of the screen model never decreases; it changes only
\* on the step that ends a stream with the final StreamResult received, not on
\* one that ends a stream interrupted; /new and /clear leave it as it is.
C27_TokenTotalMonotone ==
  [][ /\ session_tokens' >= session_tokens
      /\ session_tokens' # session_tokens => (StreamFinishes /\ ~interrupted')
      /\ (StreamFinishes /\ interrupted') => session_tokens' = session_tokens
      /\ (CommandSubmitted /\ (Submitted(Txt.new) \/ Submitted(Txt.clear))) =>
           session_tokens' = session_tokens ]_vars
\* a second response was interrupted after its usage had reached the client:
\* the total still shows the first response alone
C27_InterruptedKeepsTotal ==
  /\ pc = "poll" /\ interrupted /\ session_tokens > 0
  /\ llm_session_tokens > session_tokens
====
